---- MODULE Spec2Model ----
(***************************************************************************)
(* Behavioural cashflow projection engine, KPI aggregator, sensitivity     *)
(* sweep and constrained optimizer of src/app.py.                          *)
(*                                                                         *)
(* Number representation.  The program computes in binary floating point.  *)
(* Here money is an integer number of micro-units (UNIT micro-units = one  *)
(* currency unit), annual rates and fractions are integers in basis points *)
(* (0.03 = 300, 0.85 = 8500), a day is an integer index into the date grid *)
(* (index 0 = start_date).  Products are truncated toward zero.  UNIT is a *)
(* multiple of every bucket's day count, so B0 / maturity_days is exact.   *)
(***************************************************************************)
EXTENDS Integers, Sequences, FiniteSets, TLC

VARIABLES
    e_pos,          \* engine run: the position projected
    e_n,            \* engine run: number of days of the date grid
    e_beh,          \* engine run: the Behavioral Parameter Set
    e_shock,        \* engine run: rate_shock_bp
    e_out,          \* engine run: the cashflow table returned
    e_pc,           \* engine run: "call" before, "done" after the projection
    session_state,  \* st.session_state: the ambient store the sidebar writes
    m_behavioral,   \* main: the Behavioral Parameter Set built from the sliders
    target_metric,  \* main: the metric chosen for the tornado table
    m_pc,           \* main: position of the script run
    base_k,         \* main: KPI snapshot of the BASE run
    stress_k,       \* main: KPI snapshot of the STRESS run
    scenario_results,     \* main: table of run_rate_scenario_analysis
    sensitivity_results,  \* main: table of run_sensitivity_analysis
    kpi_log,        \* history: every compute_kpis_pro call made so far
    o_positions,    \* optimizer call: positions
    o_base_behavioral,  \* optimizer call: base_behavioral
    o_requested,    \* optimizer call: target_lcr as passed in, in thousandths
    o_raising,      \* optimizer call: the parameter points at which the pipeline raises
    o_target_lcr,   \* optimizer call: target_lcr after the baseline probe
    o_warning_msg,  \* optimizer call: warning_msg, <<>> for None
    o_kpi_initial,  \* optimizer call: kpi_initial
    o_last,         \* optimizer call: the solver's latest evaluation of objective, constraint
    o_result,       \* optimizer call: result of the latest minimize() that returned
    o_ret,          \* optimizer call: the returned dictionary
    o_pc,           \* optimizer call: "probe", a method name, "finish", "returned", "raised"
    c_fn,           \* direct call: the function called
    c_positions,    \* direct call: positions
    c_behavioral,   \* direct call: the Behavioral Parameter Set passed
    c_arg,          \* direct call: the other arguments of the function
    c_cf,           \* direct call: the cashflow table handed to compute_kpis_pro
    c_out,          \* direct call: what the function returned
    c_pc            \* direct call: "call" before, "done" after

evars == <<e_pos, e_n, e_beh, e_shock, e_out, e_pc>>

mvars == <<m_behavioral, target_metric, m_pc, base_k, stress_k, scenario_results,
           sensitivity_results, kpi_log>>

ovars == <<o_positions, o_base_behavioral, o_requested, o_raising, o_target_lcr,
           o_warning_msg, o_kpi_initial, o_last, o_result, o_ret, o_pc>>

cvars == <<c_fn, c_positions, c_behavioral, c_arg, c_cf, c_out, c_pc>>

vars == <<c_fn, c_positions, c_behavioral, c_arg, c_cf, c_out, c_pc,
          o_positions, o_base_behavioral, o_requested, o_raising, o_target_lcr,
          o_warning_msg, o_kpi_initial, o_last, o_result, o_ret, o_pc,
          e_pos, e_n, e_beh, e_shock, e_out, e_pc, session_state, m_behavioral,
          target_metric, m_pc, base_k, stress_k, scenario_results, sensitivity_results,
          kpi_log>>

----------------------------------------------------------------------------
(* Arithmetic helpers                                                      *)

UNIT == 2 * 3 * 5 * 7 * 13 * 73 * 10

BP == 10000

YEAR_DAYS == 365

Abs(x) == IF x < 0 THEN -x ELSE x

Max(a, b) == IF a >= b THEN a ELSE b

Min(a, b) == IF a <= b THEN a ELSE b

\* a / b truncated toward zero (b > 0)
TDiv(a, b) == IF a >= 0 THEN a \div b ELSE -((-a) \div b)

\* a * bp / 10000, truncated toward zero, without overflowing 32 bits: bp is split
\* into its whole multiples of 10000 and the rest
Frac(a, bp) ==
    LET x == Abs(a)
        y == Abs(bp) % BP
        v == x * (Abs(bp) \div BP) + (x \div BP) * y + ((x % BP) * y) \div BP
    IN  IF (a < 0) = (bp < 0) THEN v ELSE -v

\* x / 365.0
PerDay(x) == TDiv(x, YEAR_DAYS)

\* the array with the values of f on 1..n
Array(f, n) == SubSeq(f, 1, n)

RECURSIVE SumSeq(_, _, _)
\* sum of s[lo..hi] (1-based, empty when lo > hi), summed by halves
SumSeq(s, lo, hi) ==
    IF lo > hi THEN 0
    ELSE IF lo = hi THEN s[lo]
    ELSE LET mid == (lo + hi) \div 2
         IN  SumSeq(s, lo, mid) + SumSeq(s, mid + 1, hi)

----------------------------------------------------------------------------
(* Domain constants                                                        *)

\* BUCKET_YEARS, in hundredths of a year
BUCKET_YEARS(bucket) ==
    CASE bucket = "3M" -> 25
      [] bucket = "6M" -> 50
      [] bucket = "1Y" -> 100
      [] bucket = "2Y" -> 200
      [] bucket = "3Y" -> 300
      [] bucket = "5Y+" -> 700
      [] OTHER -> 100

\* maturity_days = int(years * 365)
MaturityDays(bucket) == (BUCKET_YEARS(bucket) * YEAR_DAYS) \div 100

\* a key that is not there reads as 0 instead of its default
GetZero(behavioral, key, default) ==
    IF key \in DOMAIN behavioral THEN behavioral[key] ELSE 0

\* behavioral.get(key, default)
Get(behavioral, key, default) ==
    IF key \in DOMAIN behavioral THEN behavioral[key] ELSE default

\* "<tag>" in product : the product label is the set of the substrings it holds
\*   loan = 대출, credit_line = 신용약정, deposit = 예금, demand = 요구불,
\*   borrow = 차입, guarantee = 지급보증
Has(product, tag) == tag \in product

----------------------------------------------------------------------------
(* 4.2 Cashflow projection engine: build_cashflow_schedule_fast            *)

\* decay and the unused rollover default of one row (lines 918-950).  The daily
\* decay is a * b / 10^8 / 365: a product of two basis-point quantities.
DecayOf(pos, behavioral) ==
    LET product == pos.product
        loan_prepay == Get(behavioral, "loan_prepay_rate", 300)
        credit_line_usage == Get(behavioral, "credit_line_usage_rate", 200)
        guarantee_usage == Get(behavioral, "guarantee_usage_rate", 100)
        core_deposit == Get(behavioral, "core_deposit_ratio", 6000)
        deposit_early_withdraw == Get(behavioral, "deposit_early_withdraw_rate", 200)
        runoff == Get(behavioral, "runoff_rate", 100)
        early_term == Get(behavioral, "early_termination", 50)
        d == IF pos.type = "asset"
             THEN IF Has(product, "loan") THEN [a |-> loan_prepay, b |-> BP]
                  ELSE IF Has(product, "credit_line") THEN [a |-> -credit_line_usage, b |-> BP]
                  ELSE [a |-> runoff, b |-> BP \div 2]
             ELSE IF Has(product, "deposit")
                  THEN IF Has(product, "demand") THEN [a |-> runoff, b |-> BP - core_deposit]
                       ELSE [a |-> deposit_early_withdraw, b |-> BP]
                  ELSE IF Has(product, "borrow") THEN [a |-> early_term, b |-> BP]
                  ELSE IF Has(product, "guarantee") THEN [a |-> -guarantee_usage, b |-> BP]
                  ELSE [a |-> runoff + early_term, b |-> BP]
    IN  \* decay = max(decay, -0.1): -0.1 per day is -365000 bp per year
        IF Frac(d.a, d.b) < -(1000 * YEAR_DAYS) THEN [a |-> -(1000 * YEAR_DAYS), b |-> BP] ELSE d

\* x * decay (decay per day)
TimesDecay(x, d) == PerDay(Frac(Frac(x, d.a), d.b))

RECURSIVE BalChunk(_, _, _)
\* k more days of the unfloored path bal0 * (1 - decay)^t, one day at a time
BalChunk(acc, d, k) ==
    IF k = 0 THEN acc
    ELSE LET raw == acc[Len(acc)]
         IN  BalChunk(Append(acc, raw - TimesDecay(raw, d)), d, k - 1)

RECURSIVE BalRaw(_, _, _)
\* the unfloored path over n days, built in runs of 32 days
BalRaw(acc, d, n) ==
    IF Len(acc) >= n THEN acc
    ELSE BalRaw(BalChunk(acc, d, Min(32, n - Len(acc))), d, n)

\* the path without its floor at zero
BalPathUnfloored(bal0u, d, n) ==
    LET raw == BalRaw(<<bal0u>>, d, n)
    IN  [t \in 1..n |-> raw[t]]

\* bal_path = np.maximum(bal0 * np.power(1.0 - decay, days), 0.0), days = 0..n-1
BalPath(bal0u, d, n) ==
    LET raw == BalRaw(<<bal0u>>, d, n)
    IN  [t \in 1..n |-> Max(raw[t], 0)]

\* the replaced part lands one day early, on day i + M - 1
LadderStepEarly(dm, i, M, n, paid, replaced) ==
    LET dm1 == [dm EXCEPT ![i + 1] = paid]
        day == Min(i + M - 1, n - 1)
    IN  [dm1 EXCEPT ![day + 1] = @ + replaced]

\* the replaced part comes back M days on and again 2M days on
LadderStepEvergreen(dm, i, M, n, paid, replaced) ==
    LET dm1 == [dm EXCEPT ![i + 1] = paid]
        day == Min(i + M, n - 1)
        again == Min(i + 2 * M, n - 1)
        dm2 == [dm1 EXCEPT ![day + 1] = @ + replaced]
    IN  [dm2 EXCEPT ![again + 1] = @ + replaced]

\* the replaced part is dropped when day i + M lies beyond the horizon
LadderStepDropsClipped(dm, i, M, n, paid, replaced) ==
    LET dm1 == [dm EXCEPT ![i + 1] = paid]
    IN  IF i + M > n - 1 THEN dm1 ELSE [dm1 EXCEPT ![i + M + 1] = @ + replaced]

\* one iteration of the maturity loop (lines 980-985, 1010-1016, 1024-1030):
\*   daily_maturity[i] = paid;  daily_maturity[min(i + M, n - 1)] += replaced
LadderStep(dm, i, M, n, paid, replaced) ==
    LET dm1 == [dm EXCEPT ![i + 1] = paid]
        day == Min(i + M, n - 1)
    IN  [dm1 EXCEPT ![day + 1] = @ + replaced]

RECURSIVE LadderChunk(_, _, _, _, _, _, _)
\* for i in range(i, stop): one iteration each
LadderChunk(dm, i, stop, M, n, paid, replaced) ==
    IF i >= stop THEN dm
    ELSE LadderChunk(LadderStep(dm, i, M, n, paid, replaced), i + 1, stop, M, n, paid, replaced)

RECURSIVE LadderLoop(_, _, _, _, _, _, _)
\* the loop over i in range(lim), run in stretches of 32 iterations
LadderLoop(dm, i, lim, M, n, paid, replaced) ==
    IF i >= lim \/ DOMAIN dm = {} THEN dm
    ELSE LadderLoop(LadderChunk(dm, i, Min(i + 32, lim), M, n, paid, replaced),
                    Min(i + 32, lim), lim, M, n, paid, replaced)

\* daily_maturity of a laddered position: payaway is the fraction of each day's
\* maturing tranche that is paid away, the rest is replaced and comes back M days on
DailyMaturity(bal0u, M, n, payaway) ==
    LET daily_maturity_amount == bal0u \div Max(M, 1)
        paid == Frac(daily_maturity_amount, payaway)
        replaced == Frac(daily_maturity_amount, BP - payaway)
    IN  LadderLoop(Array([t \in 1..n |-> 0], n), 0, Min(M, n), M, n, paid, replaced)

\* the pay-away fraction of a laddered product, "none" for a product without ladder
PayAway(pos, behavioral) ==
    LET product == pos.product
    IN  IF pos.type = "asset"
        THEN IF Has(product, "loan")
             THEN Get(behavioral, "loan_maturity_repay_rate", 8500)
             ELSE -1
        ELSE IF Has(product, "deposit")
             THEN IF Has(product, "demand") THEN -1
                  ELSE BP - Get(behavioral, "deposit_rollover_rate", 7500)
             ELSE IF Has(product, "borrow")
                  THEN BP - Get(behavioral, "borrow_refinance_rate", 7000)
                  ELSE -1

\* the behavioural (non-ladder) part of the unsigned principal on day index t
BehaviouralLeg(pos, behavioral, bal) ==
    LET product == pos.product
        loan_prepay == Get(behavioral, "loan_prepay_rate", 300)
        credit_line_usage == Get(behavioral, "credit_line_usage_rate", 200)
        guarantee_usage == Get(behavioral, "guarantee_usage_rate", 100)
        core_deposit == Get(behavioral, "core_deposit_ratio", 6000)
        deposit_early_withdraw == Get(behavioral, "deposit_early_withdraw_rate", 200)
        runoff == Get(behavioral, "runoff_rate", 100)
        early_term == Get(behavioral, "early_termination", 50)
    IN  IF pos.type = "asset"
        THEN IF Has(product, "loan") THEN PerDay(Frac(bal, loan_prepay))
             ELSE IF Has(product, "credit_line") THEN PerDay(Frac(bal, -credit_line_usage))
             ELSE TDiv(PerDay(Frac(bal, runoff)), 2)
        ELSE IF Has(product, "deposit")
             THEN IF Has(product, "demand") THEN Frac(PerDay(Frac(bal, runoff)), BP - core_deposit)
                  ELSE PerDay(Frac(bal, deposit_early_withdraw))
             ELSE IF Has(product, "borrow") THEN PerDay(Frac(bal, early_term))
             ELSE IF Has(product, "guarantee") THEN PerDay(Frac(bal, -guarantee_usage))
             ELSE PerDay(Frac(bal, runoff + early_term))

\* the rows appended for one position (lines 1041-1054)
PositionRows(pos, n, interest, principal) ==
    [type |-> pos.type, product |-> pos.product,
     maturity_bucket |-> pos.maturity_bucket, balance0 |-> pos.balance,
     interest |-> interest, principal |-> principal,
     cashflow |-> Array([t \in 1..n |-> interest[t] + principal[t]], n)]

\* the interest leg is left unsigned: booked as an inflow for liabilities too
PositionLegsUnsignedInterest(pos, n, behavioral, rate_shock_bp, bal_path, daily_maturity) ==
    LET sign == IF pos.type = "asset" THEN 1 ELSE -1
        eff_rate == pos.rate + rate_shock_bp
    IN  PositionRows(pos, n,
            Array([t \in 1..n |-> PerDay(Frac(bal_path[t], eff_rate))], n),
            Array([t \in 1..n |->
                     sign * (BehaviouralLeg(pos, behavioral, bal_path[t]) + daily_maturity[t])], n))

\* the shock is left out of the interest leg
PositionLegsShockIgnored(pos, n, behavioral, rate_shock_bp, bal_path, daily_maturity) ==
    LET sign == IF pos.type = "asset" THEN 1 ELSE -1
        eff_rate == pos.rate
    IN  PositionRows(pos, n,
            Array([t \in 1..n |-> sign * PerDay(Frac(bal_path[t], eff_rate))], n),
            Array([t \in 1..n |->
                     sign * (BehaviouralLeg(pos, behavioral, bal_path[t]) + daily_maturity[t])], n))

\* interest and principal of one position from its balance path and ladder
PositionLegs(pos, n, behavioral, rate_shock_bp, bal_path, daily_maturity) ==
    LET sign == IF pos.type = "asset" THEN 1 ELSE -1
        eff_rate == pos.rate + rate_shock_bp
    IN  PositionRows(pos, n,
            Array([t \in 1..n |-> sign * PerDay(Frac(bal_path[t], eff_rate))], n),
            Array([t \in 1..n |->
                     sign * (BehaviouralLeg(pos, behavioral, bal_path[t]) + daily_maturity[t])], n))

\* one position's rows (lines 912-1065): n days of interest, principal, cashflow
ProjectPosition(pos, n, behavioral, rate_shock_bp) ==
    LET bal0u == pos.balance * UNIT
        payaway == PayAway(pos, behavioral)
    IN  PositionLegs(pos, n, behavioral, rate_shock_bp,
            Array(BalPath(bal0u, DecayOf(pos, behavioral), n), n),
            IF payaway = -1 THEN Array([t \in 1..n |-> 0], n)
            ELSE DailyMaturity(bal0u, MaturityDays(pos.maturity_bucket), n, payaway))

\* pd.DataFrame()
EmptyTable == [start |-> 0, n |-> 0, rows |-> <<>>]

RECURSIVE ProjectAllFromZero(_, _, _, _, _)
\* a position is skipped only when its balance is below 0
ProjectAllFromZero(acc, pos, n, behavioral, rate_shock_bp) ==
    IF pos = <<>> THEN acc
    ELSE LET row == Head(pos)
             keep == row.type \in {"asset", "liability"} /\ row.balance >= 0
         IN  ProjectAllFromZero(IF keep THEN Append(acc, ProjectPosition(row, n, behavioral, rate_shock_bp))
                                ELSE acc,
                                Tail(pos), n, behavioral, rate_shock_bp)

RECURSIVE ProjectAll(_, _, _, _, _)
ProjectAll(acc, pos, n, behavioral, rate_shock_bp) ==
    IF pos = <<>> THEN acc
    ELSE LET row == Head(pos)
             keep == row.type \in {"asset", "liability"} /\ row.balance > 0
         IN  ProjectAll(IF keep THEN Append(acc, ProjectPosition(row, n, behavioral, rate_shock_bp))
                        ELSE acc,
                        Tail(pos), n, behavioral, rate_shock_bp)

\* build_cashflow_schedule_fast(positions, start_date, end_date, behavioral, rate_shock_bp)
\* dates are day numbers; the grid is start_date..end_date inclusive
BuildCashflowScheduleFast(positions, start_date, end_date, behavioral, rate_shock_bp) ==
    LET n == IF end_date >= start_date THEN end_date - start_date + 1 ELSE 0
        rows == ProjectAll(<<>>, positions, n, behavioral, rate_shock_bp)
    IN  IF n = 0 THEN EmptyTable
        ELSE IF rows = <<>> THEN EmptyTable
        ELSE [start |-> start_date, n |-> n, rows |-> rows]

----------------------------------------------------------------------------
(* 4.1 Yield curve and 4.3 discounting                                      *)

\* a curve is a sequence of points [x |-> tenor in hundredths of a year, y |-> rate in bp]
\* np.interp(t_years, curve_x, curve_y), t given in days; the result is in bp
RECURSIVE InterpFrom(_, _, _)
InterpFrom(curve, k, t4) ==
    \* t4 and the tenors are in quarter days: x / 100 * 365 * 4 = x * 73 / 5
    LET x0 == (curve[k].x * 73) \div 5
        x1 == (curve[k + 1].x * 73) \div 5
    IN  IF t4 <= x1 \/ k + 1 = Len(curve)
        THEN curve[k].y + TDiv((curve[k + 1].y - curve[k].y) * (t4 - x0), x1 - x0)
        ELSE InterpFrom(curve, k + 1, t4)

\* the first and the last segment are continued beyond the curve's ends
CurveRateExtrapolated(t_days, curve) == InterpFrom(curve, 1, 4 * t_days)

curve_rate_for_years(t_days, curve) ==
    LET t4 == 4 * t_days
        first == (curve[1].x * 73) \div 5
        last == (curve[Len(curve)].x * 73) \div 5
    IN  IF t4 <= first THEN curve[1].y
        ELSE IF t4 >= last THEN curve[Len(curve)].y
        ELSE InterpFrom(curve, 1, t4)

RECURSIVE Compound(_, _, _)
\* g * (1 + r)^k in basis points of growth
Compound(g, r, k) == IF k = 0 THEN g ELSE Compound(Frac(g, BP + r), r, k - 1)

\* DF(t) = 1 / (1 + r(t))^t_years in basis points, t_years = max(t_days / 365, 0);
\* the power is compounded over the whole years and linear within the last year
DiscountFactor(t_days, curve) ==
    LET t == Max(t_days, 0)
        r == curve_rate_for_years(t, curve)
        g == Compound(BP, r, t \div YEAR_DAYS)
        growth == g + Frac(g, TDiv(r * (t % YEAR_DAYS), YEAR_DAYS))
    IN  (BP * BP) \div growth

\* net cashflow of the rows of the given types on the table's day index t (1-based)
NetOn(cashflows, types, t) ==
    LET rows == cashflows.rows
        amounts == [k \in 1..Len(rows) |->
                       IF rows[k].type \in types THEN rows[k].cashflow[t] ELSE 0]
    IN  SumSeq(amounts, 1, Len(rows))

\* the rows dated on the valuation date are left out
PvOfTypesStrictlyAfter(cashflows, types, valuation_date, curve) ==
    LET first == Max(1, valuation_date + 1 - cashflows.start + 1)
        pv == [t \in 1..cashflows.n |->
                 IF t < first THEN 0
                 ELSE Frac(NetOn(cashflows, types, t),
                           DiscountFactor(cashflows.start + t - 1 - valuation_date, curve))]
    IN  SumSeq(pv, first, cashflows.n)

\* sum over the dates >= valuation_date of net(date) * DF(date)
PvOfTypes(cashflows, types, valuation_date, curve) ==
    LET first == Max(1, valuation_date - cashflows.start + 1)
        pv == [t \in 1..cashflows.n |->
                 IF t < first THEN 0
                 ELSE Frac(NetOn(cashflows, types, t),
                           DiscountFactor(cashflows.start + t - 1 - valuation_date, curve))]
    IN  SumSeq(pv, first, cashflows.n)

pv_from_cashflows_with_curve(cashflows, valuation_date, curve) ==
    IF cashflows.rows = <<>> THEN 0
    ELSE PvOfTypes(cashflows, {"asset", "liability"}, valuation_date, curve)

\* {"asset": a, "liability": l, "net": a + l}
PvBreak(a, l) == [asset |-> a, liability |-> l, net |-> a + l]

pv_breakdown_by_type_with_curve(cashflows, valuation_date, curve) ==
    IF cashflows.rows = <<>> THEN PvBreak(0, 0)
    ELSE PvBreak(PvOfTypes(cashflows, {"asset"}, valuation_date, curve),
                 PvOfTypes(cashflows, {"liability"}, valuation_date, curve))

----------------------------------------------------------------------------
(* 4.4 Risk KPI aggregator: compute_kpis_pro                                *)

\* float("inf")
INF == 2147483647

\* the largest finite ratio the model tells apart, in thousandths
RatioCap == 1000 * 1000 * 1000

\* hqla / net_outflow in thousandths, net_outflow > 0
Ratio(hqla, net_outflow) ==
    LET q == hqla \div net_outflow
        k == IF net_outflow > 2000000 THEN 1000 ELSE 1
    IN  IF q >= 1000 * 1000 THEN RatioCap
        ELSE q * 1000 + (((hqla % net_outflow) \div k) * 1000) \div (net_outflow \div k)

\* x * num / den on a ratio that may be infinite
RatioTimes(x, num, den) ==
    IF x = INF THEN INF ELSE Min(RatioCap, (x \div den) * num + ((x % den) * num) \div den)

RECURSIVE SumBalances(_, _)
SumBalances(positions, type) ==
    IF positions = <<>> THEN 0
    ELSE (IF Head(positions).type = type THEN Head(positions).balance * UNIT ELSE 0)
         + SumBalances(Tail(positions), type)

\* st.session_state.get(key, default)
SessionGet(key, default) ==
    IF key \in DOMAIN session_state THEN session_state[key] ELSE default

\* behavioral_dummy (lines 1179-1190): the set the DV01 re-projections use
behavioral_dummy ==
    [loan_prepay_rate |-> SessionGet("_loan_prepay_rate", 300),
     loan_maturity_repay_rate |-> SessionGet("_loan_maturity_repay_rate", 8500),
     borrow_refinance_rate |-> SessionGet("_borrow_refinance_rate", 7000),
     credit_line_usage_rate |-> SessionGet("_credit_line_usage_rate", 200),
     guarantee_usage_rate |-> SessionGet("_guarantee_usage_rate", 100),
     core_deposit_ratio |-> SessionGet("_core_deposit_ratio", 6000),
     deposit_rollover_rate |-> SessionGet("_deposit_rollover_rate", 7500),
     deposit_early_withdraw_rate |-> SessionGet("_deposit_early_withdraw_rate", 200),
     runoff_rate |-> SessionGet("_runoff_rate", 100),
     early_termination |-> SessionGet("_early_term", 50)]

\* the difference taken the other way round: PV(0bp) - PV(+1bp)
PvDiffReversed(pv_up1_break, pv_base_break) ==
    [asset |-> pv_base_break.asset - pv_up1_break.asset,
     liability |-> pv_base_break.liability - pv_up1_break.liability,
     net |-> pv_base_break.net - pv_up1_break.net]

\* PV(+1bp) - PV(0bp) of two re-projections of the positions under the given set
PvDiff(pv_up1_break, pv_base_break) ==
    [asset |-> pv_up1_break.asset - pv_base_break.asset,
     liability |-> pv_up1_break.liability - pv_base_break.liability,
     net |-> pv_up1_break.net - pv_base_break.net]

Dv01(positions, behavioral, start_date, end_date, valuation_date, curve) ==
    PvDiff(pv_breakdown_by_type_with_curve(
               BuildCashflowScheduleFast(positions, start_date, end_date, behavioral, 1),
               valuation_date, curve),
           pv_breakdown_by_type_with_curve(
               BuildCashflowScheduleFast(positions, start_date, end_date, behavioral, 0),
               valuation_date, curve))

\* the window starts on the valuation date itself
WindowSumInclusive(cashflows, valuation_date, horizon) ==
    LET lo == Max(1, valuation_date - cashflows.start + 1)
        hi == Min(cashflows.n, valuation_date + horizon - cashflows.start + 1)
        net == [t \in 1..cashflows.n |->
                  IF t >= lo /\ t <= hi THEN NetOn(cashflows, {"asset", "liability"}, t) ELSE 0]
    IN  SumSeq(net, lo, hi)

\* the window's sum with the wrong sign: inflows counted as outflows
WindowSumNegated(cashflows, valuation_date, horizon) ==
    LET lo == Max(1, valuation_date + 1 - cashflows.start + 1)
        hi == Min(cashflows.n, valuation_date + horizon - cashflows.start + 1)
        net == [t \in 1..cashflows.n |->
                  IF t >= lo /\ t <= hi THEN -NetOn(cashflows, {"asset", "liability"}, t) ELSE 0]
    IN  SumSeq(net, lo, hi)

\* sum of all cashflow dated in (valuation_date, valuation_date + horizon]
WindowSum(cashflows, valuation_date, horizon) ==
    LET lo == Max(1, valuation_date + 1 - cashflows.start + 1)
        hi == Min(cashflows.n, valuation_date + horizon - cashflows.start + 1)
        net == [t \in 1..cashflows.n |->
                  IF t >= lo /\ t <= hi THEN NetOn(cashflows, {"asset", "liability"}, t) ELSE 0]
    IN  SumSeq(net, lo, hi)

RECURSIVE MinBuffer(_, _, _, _, _)
\* min over the window's days of hqla + cumulative net cashflow; "none" when empty
MinBuffer(cashflows, t, hi, cum, best) ==
    IF t > hi THEN best
    ELSE LET c == cum + NetOn(cashflows, {"asset", "liability"}, t)
         IN  MinBuffer(cashflows, t + 1, hi, c, Min(best, c))

\* the snapshot returned by compute_kpis_pro (lines 1219-1229)
Snapshot(hqla, nii, npv, dv01, net_outflow_30d, min_buffer) ==
    [HQLA |-> hqla, NII_YTD |-> nii, NPV |-> npv, DV01_NET |-> dv01.net,
     DV01_ASSET |-> dv01.asset, DV01_LIAB |-> dv01.liability,
     LCR |-> IF net_outflow_30d > 0 THEN Ratio(hqla, net_outflow_30d) ELSE INF,
     NetOutflow_30D |-> net_outflow_30d,
     Stress_Survive |-> IF min_buffer >= 0 THEN 1 ELSE 0]

\* interest dated up to the valuation date, summed over all rows
NiiYtd(cashflows, valuation_date) ==
    LET last == Min(cashflows.n, valuation_date - cashflows.start + 1)
        interest == [t \in 1..cashflows.n |->
                       IF t > last THEN 0
                       ELSE SumSeq([k \in 1..Len(cashflows.rows) |-> cashflows.rows[k].interest[t]],
                                   1, Len(cashflows.rows))]
    IN  SumSeq(interest, 1, last)

\* the buffer without the cashflows of the window
StressMinBufferNoCashflow(hqla, cashflows, valuation_date, stress_horizon_days) == hqla

\* hqla + min over the stress window of the cumulative net cashflow
StressMinBuffer(hqla, cashflows, valuation_date, stress_horizon_days) ==
    LET st_lo == Max(1, valuation_date + 1 - cashflows.start + 1)
        st_hi == Min(cashflows.n, valuation_date + stress_horizon_days - cashflows.start + 1)
    IN  IF st_lo > st_hi THEN hqla
        ELSE hqla + MinBuffer(cashflows, st_lo, st_hi, 0, INF)

\* compute_kpis_pro(positions, cashflows, valuation_date, curve, lcr_horizon_days,
\* stress_horizon_days): it is not given the set that produced `cashflows`
compute_kpis_pro(positions, cashflows, valuation_date, curve, lcr_horizon_days, stress_horizon_days) ==
    IF cashflows.rows = <<>>
    THEN [HQLA |-> SumBalances(positions, "hqla"), NII_YTD |-> 0, NPV |-> 0, DV01_NET |-> 0,
          DV01_ASSET |-> 0, DV01_LIAB |-> 0, LCR |-> INF, NetOutflow_30D |-> 0,
          Stress_Survive |-> 1]
    ELSE Snapshot(SumBalances(positions, "hqla"),
                  NiiYtd(cashflows, valuation_date),
                  pv_from_cashflows_with_curve(cashflows, valuation_date, curve),
                  Dv01(positions, behavioral_dummy, cashflows.start,
                       cashflows.start + cashflows.n - 1, valuation_date, curve),
                  Max(-WindowSum(cashflows, valuation_date, lcr_horizon_days), 0),
                  StressMinBuffer(SumBalances(positions, "hqla"), cashflows, valuation_date,
                                  stress_horizon_days))

----------------------------------------------------------------------------
(* Engine runs: one position projected over a daily grid                    *)

MaxDays == 366

\* the defaults of build_cashflow_schedule_fast (lines 892-904)
DefaultBehavioral ==
    [loan_prepay_rate |-> 300, loan_maturity_repay_rate |-> 8500,
     borrow_refinance_rate |-> 7000, credit_line_usage_rate |-> 200,
     guarantee_usage_rate |-> 100, core_deposit_ratio |-> 6000,
     deposit_rollover_rate |-> 7500, deposit_early_withdraw_rate |-> 200,
     runoff_rate |-> 100, early_termination |-> 50]

\* nothing is paid away at maturity: everything is replaced
NoPayAwayBehavioral ==
    [DefaultBehavioral EXCEPT !.loan_maturity_repay_rate = 0,
                              !.deposit_rollover_rate = BP,
                              !.borrow_refinance_rate = BP]

\* everything is paid away at maturity: nothing is replaced
AllPayAwayBehavioral ==
    [DefaultBehavioral EXCEPT !.loan_maturity_repay_rate = BP,
                              !.deposit_rollover_rate = 0,
                              !.borrow_refinance_rate = 0,
                              !.loan_prepay_rate = 3000]

EngineBehaviorals == {DefaultBehavioral, NoPayAwayBehavioral, AllPayAwayBehavioral}

Pos(type, product, balance, rate, bucket) ==
    [type |-> type, product |-> product, balance |-> balance, rate |-> rate,
     maturity_bucket |-> bucket]

LadderedPositions ==
    { Pos(tp[1], tp[2], bal, 500, b) :
        tp \in {<<"asset", {"loan"}>>, <<"liability", {"deposit"}>>, <<"liability", {"borrow"}>>},
        bal \in {100, 90}, b \in {"3M", "6M", "1Y"} }

OtherPositions ==
    { Pos(tp[1], tp[2], 100, 200, "3M") :
        tp \in {<<"asset", {"credit_line"}>>, <<"asset", {}>>,
                <<"liability", {"deposit", "demand"}>>, <<"liability", {"guarantee"}>>,
                <<"liability", {}>>} }
    \cup { Pos("asset", {"loan"}, 0, 500, "3M"), Pos("hqla", {}, 100, 0, "3M") }
    \cup { Pos("asset", {}, 100, 50, "3M"), Pos("liability", {"deposit", "demand"}, 100, 50, "3M") }

----------------------------------------------------------------------------
(* The parts of the state a specification does not use                      *)

NoKpi == [HQLA |-> 0, NII_YTD |-> 0, NPV |-> 0, DV01_NET |-> 0, DV01_ASSET |-> 0,
          DV01_LIAB |-> 0, LCR |-> INF, NetOutflow_30D |-> 0, Stress_Survive |-> 1]

MainIdle ==
    /\ m_behavioral = DefaultBehavioral
    /\ target_metric = "NPV"
    /\ m_pc = "off"
    /\ base_k = NoKpi
    /\ stress_k = NoKpi
    /\ scenario_results = <<>>
    /\ sensitivity_results = <<>>
    /\ kpi_log = {}

\* a minimize() result that is not there (result = None)
NoResult == [present |-> FALSE, success |-> FALSE, x |-> <<>>]

\* no evaluation yet
NoEvaluation == [present |-> FALSE, x |-> <<>>, f |-> 0, c |-> 0]

\* nothing returned yet
NoReturn == [success |-> FALSE, message |-> <<>>]

OptIdle ==
    /\ o_positions = <<>>
    /\ o_base_behavioral = DefaultBehavioral
    /\ o_requested = 0
    /\ o_raising = {}
    /\ o_target_lcr = 0
    /\ o_warning_msg = <<>>
    /\ o_kpi_initial = NoKpi
    /\ o_last = NoEvaluation
    /\ o_result = NoResult
    /\ o_ret = NoReturn
    /\ o_pc = "off"

CallIdle ==
    /\ c_fn = "none"
    /\ c_positions = <<>>
    /\ c_behavioral = DefaultBehavioral
    /\ c_arg = <<>>
    /\ c_cf = EmptyTable
    /\ c_out = <<>>
    /\ c_pc = "off"

EngineIdle ==
    /\ e_pos = Pos("hqla", {}, 0, 0, "3M")
    /\ e_n = 0
    /\ e_beh = DefaultBehavioral
    /\ e_shock = 0
    /\ e_out = EmptyTable
    /\ e_pc = "off"

EngineDays == {1, 91, 182, 183, 273, 365, MaxDays}

\* the longest grid of a run with an extreme decay
PathDays == 30

\* sets outside the sliders' ranges: a usage of 40 per year (a decay below the floor
\* of -0.1 per day) and a prepayment and early termination of 730 per year (a decay
\* of 2 per day)
ExtremeBehaviorals ==
    { [DefaultBehavioral EXCEPT !.credit_line_usage_rate = 40 * BP,
                                !.guarantee_usage_rate = 40 * BP],
      [DefaultBehavioral EXCEPT !.loan_prepay_rate = 2 * YEAR_DAYS * BP,
                                !.early_termination = 2 * YEAR_DAYS * BP] }

ExtremePositions ==
    { Pos(tp[1], tp[2], 1, 500, "3M") :
        tp \in {<<"asset", {"credit_line"}>>, <<"liability", {"guarantee"}>>,
                <<"asset", {"loan"}>>, <<"liability", {"borrow"}>>} }

\* the runs of the engine: (position, days, set)
EngineRuns ==
    ((LadderedPositions \cup OtherPositions) \X EngineDays \X EngineBehaviorals)
        \cup (ExtremePositions \X {2, 7, PathDays} \X ExtremeBehaviorals)

EngineInit ==
    /\ \E run \in EngineRuns : e_pos = run[1] /\ e_n = run[2] /\ e_beh = run[3]
    /\ e_shock \in {0, 1, -100}
    /\ e_out = EmptyTable
    /\ e_pc = "call"
    /\ session_state = <<>>
    /\ MainIdle
    /\ OptIdle
    /\ CallIdle

\* project(positions, params, start, end, shock_bp) on the one-position book
Project ==
    /\ e_pc = "call"
    /\ e_out' = BuildCashflowScheduleFast(<<e_pos>>, 0, e_n - 1, e_beh, e_shock)
    /\ e_pc' = "done"
    /\ UNCHANGED <<e_pos, e_n, e_beh, e_shock, session_state>>
    /\ UNCHANGED mvars
    /\ UNCHANGED ovars
    /\ UNCHANGED cvars

EngineNext == Project

EngineSpec == EngineInit /\ [][EngineNext]_vars

----------------------------------------------------------------------------
(* Maturity ladder of an engine run                                         *)

IsLaddered(pos, behavioral) == PayAway(pos, behavioral) # -1

\* the maturity-ladder part of the unsigned principal of the projected row:
\* sign * principal minus the behavioural leg, per day index 0..n-1 (1-based)
LadderPart ==
    LET row == e_out.rows[1]
        sign == IF e_pos.type = "asset" THEN 1 ELSE -1
        bal_path == BalPath(e_pos.balance * UNIT, DecayOf(e_pos, e_beh), e_n)
    IN  [t \in 1..e_n |-> sign * row.principal[t] - BehaviouralLeg(e_pos, e_beh, bal_path[t])]

EngineM == MaturityDays(e_pos.maturity_bucket)

LadderRun == e_pc = "done" /\ e_out.rows # <<>> /\ IsLaddered(e_pos, e_beh)

\* C9: with pay-away fraction 0 and a horizon covering days 0..2M-1, the ladder part
\* is 0 on days 0..M-1 and sums to the originating balance B0 over days M..2M-1
C9_LadderConservation ==
    (LadderRun /\ PayAway(e_pos, e_beh) = 0 /\ e_n >= 2 * EngineM)
        => LET lp == LadderPart
           IN  /\ \A t \in 0..(EngineM - 1) : lp[t + 1] = 0
               /\ SumSeq(lp, EngineM + 1, 2 * EngineM) = e_pos.balance * UNIT

C9_Witness ==
    /\ LadderRun /\ PayAway(e_pos, e_beh) = 0 /\ e_n >= 2 * EngineM
    /\ e_pos.type = "liability" /\ e_pos.balance = 90

\* C10 as claimed: with a replaced fraction > 0, every window [k*M, (k+1)*M), k >= 1,
\* that starts inside the horizon carries a maturity-ladder event
C10_EvergreenRecurrence ==
    (LadderRun /\ PayAway(e_pos, e_beh) < BP)
        => \A k \in 1..(e_n \div EngineM) :
              k * EngineM < e_n
                 => \E t \in (k * EngineM)..Min((k + 1) * EngineM - 1, e_n - 1) :
                       LadderPart[t + 1] # 0

\* C10 amended: the replaced tranche of day i comes back once, on day i + M: with a
\* horizon covering days 0..2M-1 every day of [M, 2M) carries the replaced part of
\* one tranche and no day from 2M on carries any ladder event
C10_SingleRecurrence ==
    (LadderRun /\ PayAway(e_pos, e_beh) < BP /\ e_n >= 2 * EngineM)
        => LET lp == LadderPart
               replaced == Frac((e_pos.balance * UNIT) \div EngineM, BP - PayAway(e_pos, e_beh))
           IN  /\ \A t \in EngineM..(2 * EngineM - 1) : lp[t + 1] = replaced /\ replaced > 0
               /\ \A t \in (2 * EngineM)..(e_n - 1) : lp[t + 1] = 0

C10_Witness ==
    /\ LadderRun /\ PayAway(e_pos, e_beh) < BP /\ PayAway(e_pos, e_beh) > 0
    /\ e_n > 2 * EngineM

\* the replaced part of one day's tranche of the projected position
ReplacedTranche ==
    Frac((e_pos.balance * UNIT) \div Max(EngineM, 1), BP - PayAway(e_pos, e_beh))

\* the positions of the end-to-end example: the 1Y loan of 100 and the 1Y term
\* deposit of 90 under the default maturity-repay 0.85 and rollover 0.75
ExampleRun ==
    /\ LadderRun /\ e_beh = DefaultBehavioral /\ e_pos.maturity_bucket = "1Y"
    /\ \/ e_pos.type = "asset" /\ e_pos.balance = 100
       \/ e_pos.type = "liability" /\ Has(e_pos.product, "deposit") /\ e_pos.balance = 90

\* on every day t of M..n-1 the ladder part is the replaced part of each tranche i
\* whose landing day min(i + M, n - 1) is t
ClippedLadderIs(lp, M, n, replaced) ==
    \A t \in M..(n - 1) :
        lp[t + 1] = replaced * Cardinality({i \in 0..(M - 1) : Min(i + M, n - 1) = t})

EngineBalPath == BalPath(e_pos.balance * UNIT, DecayOf(e_pos, e_beh), e_n)

NonNegative(path) == \A t \in DOMAIN path : path[t] >= 0

\* C12: on every day of the grid the balance path of the projected position is >= 0,
\* also when the decay is below its floor of -0.1 per day or above 1 per day
C12_BalanceNonNegative ==
    e_pc = "done" => NonNegative(Array(EngineBalPath, e_n))

\* a run with a decay above 1 per day: the unfloored path is negative on day 1
C12_Witness ==
    /\ e_pc = "done" /\ e_out.rows # <<>> /\ e_n >= 2
    /\ BalPathUnfloored(e_pos.balance * UNIT, DecayOf(e_pos, e_beh), e_n)[2] < 0
    /\ EngineBalPath[2] = 0

\* eff_rate of the projected position
EngineEffRate == e_pos.rate + e_shock

\* every day's interest of the row has the sign s (s = 1: >= 0, s = -1: <= 0)
InterestSignIs(interest, s) == \A t \in DOMAIN interest : s * interest[t] >= 0

\* C13 as claimed: the interest of a liability position is <= 0 on every day, for
\* every rate shock the engine accepts
C13_LiabilityInterestNonPositive ==
    (e_pc = "done" /\ e_out.rows # <<>> /\ e_pos.type = "liability")
        => InterestSignIs(e_out.rows[1].interest, -1)

\* C13 amended: the sign of the interest leg is the position's sign times the sign of
\* the effective rate (rate + shock): with an effective rate >= 0 an asset's interest
\* is >= 0 and a liability's <= 0 on every day; with an effective rate <= 0 it is the
\* other way round
C13_InterestSignFollowsRate ==
    (e_pc = "done" /\ e_out.rows # <<>>)
        => LET sign == IF e_pos.type = "asset" THEN 1 ELSE -1
           IN  /\ EngineEffRate >= 0 => InterestSignIs(e_out.rows[1].interest, sign)
               /\ EngineEffRate <= 0 => InterestSignIs(e_out.rows[1].interest, -sign)

\* a liability under a shock that makes its effective rate negative earns interest
C13_Witness ==
    /\ e_pc = "done" /\ e_out.rows # <<>> /\ e_pos.type = "liability"
    /\ EngineEffRate < 0 /\ e_out.rows[1].interest[1] > 0

----------------------------------------------------------------------------
(* 4.5 Scenario and sensitivity orchestrator                                *)

\* one compute_kpis_pro call of a sweep: the set and shock that produced the
\* cashflows handed to it, and the snapshot it returned
KpiCall(positions, start_date, end_date, behavioral, rate_shock_bp, valuation_date, curve, lcr_h, stress_h) ==
    LET cf == BuildCashflowScheduleFast(positions, start_date, end_date, behavioral, rate_shock_bp)
    IN  [behavioral |-> behavioral, shock |-> rate_shock_bp,
         kpi |-> compute_kpis_pro(positions, cf, valuation_date, curve, lcr_h, stress_h)]

\* the calls of run_rate_scenario_analysis, in the order of the mapping
ScenarioCalls(positions, start_date, end_date, behavioral, valuation_date, curve, scenarios) ==
    Array([k \in 1..Len(scenarios) |->
              KpiCall(positions, start_date, end_date, behavioral, scenarios[k].bp,
                      valuation_date, curve, 30, 90)], Len(scenarios))

\* the rows come out ordered by shock instead of in the mapping's order
ScenarioTableByShock(calls, scenarios) ==
    LET n == Len(scenarios)
        before(j, k) == \/ scenarios[j].bp < scenarios[k].bp
                        \/ scenarios[j].bp = scenarios[k].bp /\ j < k
        rank(k) == Cardinality({j \in 1..n : before(j, k)}) + 1
        at(p) == CHOOSE k \in 1..n : rank(k) = p
    IN  [p \in 1..n |->
            [scenario |-> scenarios[at(p)].name, shock |-> scenarios[at(p)].bp,
             NPV |-> calls[at(p)].kpi.NPV, NII |-> calls[at(p)].kpi.NII_YTD,
             DV01_NET |-> calls[at(p)].kpi.DV01_NET, LCR |-> calls[at(p)].kpi.LCR,
             survive |-> IF calls[at(p)].kpi.Stress_Survive >= 1 THEN "YES" ELSE "NO"]]

\* the rows of run_rate_scenario_analysis, from the snapshots of its calls
ScenarioTable(calls, scenarios) ==
    [k \in 1..Len(scenarios) |->
        [scenario |-> scenarios[k].name, shock |-> scenarios[k].bp,
         NPV |-> calls[k].kpi.NPV, NII |-> calls[k].kpi.NII_YTD,
         DV01_NET |-> calls[k].kpi.DV01_NET, LCR |-> calls[k].kpi.LCR,
         survive |-> IF calls[k].kpi.Stress_Survive >= 1 THEN "YES" ELSE "NO"]]

\* run_rate_scenario_analysis: one row per entry of the mapping (amounts unscaled)
run_rate_scenario_analysis(positions, start_date, end_date, behavioral, valuation_date, curve, scenarios) ==
    ScenarioTable(ScenarioCalls(positions, start_date, end_date, behavioral, valuation_date,
                                curve, scenarios), scenarios)

\* params_to_test (lines 1606-1615), in dictionary order, with their defaults
ParamsToTest ==
    << <<"loan_prepay_rate", 300>>, <<"loan_maturity_repay_rate", 8500>>,
       <<"borrow_refinance_rate", 7000>>, <<"credit_line_usage_rate", 200>>,
       <<"deposit_rollover_rate", 7500>>, <<"deposit_early_withdraw_rate", 200>>,
       <<"core_deposit_ratio", 6000>>, <<"runoff_rate", 100>> >>

\* base_behavioral.copy() with one key set: keys are added when absent
WithParam(behavioral, key, value) ==
    [k \in DOMAIN behavioral \cup {key} |-> IF k = key THEN value ELSE behavioral[k]]

RECURSIVE Updated(_, _)
\* a mapping after the assignments d[key] = value of a sequence of (key, value) pairs
Updated(d, updates) ==
    IF updates = <<>> THEN d
    ELSE Updated(WithParam(d, Head(updates)[1], Head(updates)[2]), Tail(updates))

\* the local name is bound to the caller's mapping itself, not to a copy of it
AliasUpdate(base, updates) ==
    [caller |-> Updated(base, updates), local |-> Updated(base, updates)]

\* local = base.copy() followed by assignments to local: what the caller's mapping and
\* the local one hold afterwards
CopyUpdate(base, updates) ==
    [caller |-> base, local |-> Updated(base, updates)]

RECURSIVE GapCallerAfter(_, _, _)
\* the caller's base_behavioral after the loop of run_behavioral_gap_analysis
GapCallerAfter(base, param_name, param_range) ==
    IF param_range = <<>> THEN base
    ELSE GapCallerAfter(CopyUpdate(base, << <<param_name, Head(param_range)>> >>).caller,
                        param_name, Tail(param_range))

RECURSIVE SensitivityCallerAfter(_, _)
\* the caller's base_behavioral after the loop of run_sensitivity_analysis over the
\* entries (name, base_val) of params_to_test
SensitivityCallerAfter(base, params) ==
    IF params = <<>> THEN base
    ELSE LET down == CopyUpdate(base, << <<Head(params)[1], Frac(Head(params)[2], 8000)>> >>).caller
             up == CopyUpdate(down, << <<Head(params)[1], Frac(Head(params)[2], 12000)>> >>).caller
         IN  SensitivityCallerAfter(up, Tail(params))

\* params_to_test as run_sensitivity_analysis builds it from base_behavioral
ParamsToTestOf(base_behavioral) ==
    Array([k \in 1..Len(ParamsToTest) |->
              <<ParamsToTest[k][1], Get(base_behavioral, ParamsToTest[k][1], ParamsToTest[k][2])>>],
          Len(ParamsToTest))

\* the calls of run_sensitivity_analysis: the baseline, then (down, up) per parameter
SensitivityCalls(positions, start_date, end_date, base_behavioral, valuation_date, curve) ==
    LET call(b) == KpiCall(positions, start_date, end_date, b, 0, valuation_date, curve, 30, 90)
    IN  [base |-> call(base_behavioral),
         steps |-> Array([k \in 1..Len(ParamsToTest) |->
                      LET param_name == ParamsToTest[k][1]
                          base_val == Get(base_behavioral, param_name, ParamsToTest[k][2])
                      IN  [param |-> param_name, base_val |-> base_val,
                           down |-> call(WithParam(base_behavioral, param_name, Frac(base_val, 8000))),
                           up |-> call(WithParam(base_behavioral, param_name, Frac(base_val, 12000)))]],
                      Len(ParamsToTest))]

\* nan, a value no percentage takes
NAN == INF - 1

\* a * 10000 / b truncated (b > 0): a percentage in hundredths of a percent
PctOf(a, b) ==
    LET k == b \div 100000 + 1
        x == Abs(a) \div k
        y == Max(b \div k, 1)
        v == IF x \div y >= 200000 THEN RatioCap ELSE (x \div y) * BP + ((x % y) * BP) \div y
    IN  IF a < 0 THEN -v ELSE v

\* (value - base_value) / base_value * 100 if base_value != 0 else 0
Impact(value, base_value) ==
    IF base_value = 0 THEN 0
    ELSE IF base_value = INF THEN NAN
    ELSE IF value = INF THEN (IF base_value > 0 THEN INF ELSE -INF)
    ELSE IF base_value > 0 THEN PctOf(value - base_value, base_value)
    ELSE -PctOf(value - base_value, -base_value)

\* abs(impact_up - impact_down)
Spread(impact_up, impact_down) ==
    IF impact_up = NAN \/ impact_down = NAN THEN NAN
    ELSE IF Abs(impact_up) = INF /\ impact_up = impact_down THEN NAN
    ELSE IF Abs(impact_up) = INF \/ Abs(impact_down) = INF THEN INF
    ELSE Abs(impact_up - impact_down)

\* a sorts before b in sort_values(ascending=False): larger first, nan last
Before(a, b) == a # NAN /\ (b = NAN \/ a > b)

\* the rows are returned in the order of params_to_test, the sort left out
SortRowsOmitted(rows) == rows

\* sort_values("spread", ascending=False): rows that compare equal keep their order
SortRows(rows) ==
    LET n == Len(rows)
        rank(k) == Cardinality({j \in 1..n : \/ Before(rows[j].spread, rows[k].spread)
                                             \/ /\ ~Before(rows[k].spread, rows[j].spread)
                                                /\ j < k}) + 1
    IN  Array([p \in 1..n |-> rows[CHOOSE k \in 1..n : rank(k) = p]], n)

\* the tornado table of run_sensitivity_analysis, from the snapshots of its calls
SensitivityTable(calls, metric) ==
    LET base_value == calls.base.kpi[metric]
        table == [k \in 1..Len(ParamsToTest) |->
                   LET impact_down == Impact(calls.steps[k].down.kpi[metric], base_value)
                       impact_up == Impact(calls.steps[k].up.kpi[metric], base_value)
                   IN  [param |-> calls.steps[k].param, base_val |-> calls.steps[k].base_val,
                        impact_down |-> impact_down, impact_up |-> impact_up,
                        spread |-> Spread(impact_up, impact_down)]]
    IN  SortRows(Array(table, Len(ParamsToTest)))

run_sensitivity_analysis(positions, start_date, end_date, base_behavioral, valuation_date, curve, metric) ==
    SensitivityTable(SensitivityCalls(positions, start_date, end_date, base_behavioral,
                                      valuation_date, curve), metric)

\* the cashflow tables of run_behavioral_gap_analysis, one per candidate value
GapCalls(positions, start_date, end_date, base_behavioral, param_name, param_range) ==
    Array([k \in 1..Len(param_range) |->
              [value |-> param_range[k],
               cf |-> BuildCashflowScheduleFast(positions, start_date, end_date,
                          WithParam(base_behavioral, param_name, param_range[k]), 0)]],
          Len(param_range))

\* the rows of run_behavioral_gap_analysis: a candidate whose table is empty is skipped
GapTable(calls, positions, valuation_date) ==
    LET hqla == SumBalances(positions, "hqla")
        kept == SelectSeq(calls, LAMBDA c : c.cf.rows # <<>>)
        gap(k, h) == WindowSum(kept[k].cf, valuation_date, h)
    IN  [k \in 1..Len(kept) |->
            [value |-> kept[k].value, HQLA |-> hqla,
             GAP_30D |-> gap(k, 30), GAP_90D |-> gap(k, 90), GAP_180D |-> gap(k, 180),
             SURPLUS_30D |-> hqla + gap(k, 30), SURPLUS_90D |-> hqla + gap(k, 90),
             SURPLUS_180D |-> hqla + gap(k, 180)]]

\* run_behavioral_gap_analysis (amounts unscaled; the curve arguments are not read)
run_behavioral_gap_analysis(positions, start_date, end_date, base_behavioral, valuation_date, param_name, param_range) ==
    GapTable(GapCalls(positions, start_date, end_date, base_behavioral, param_name, param_range),
             positions, valuation_date)

----------------------------------------------------------------------------
(* main(): one run of the script per user interaction                       *)

\* number of days of the analysis period (start_date = day 0)
MainDays == 40

\* the day number of the valuation date
ValuationDay == 5

\* ANALYSIS_CONFIG and the sidebar's other settings
Config == [start_date |-> 0, end_date |-> MainDays - 1, valuation_date |-> ValuationDay,
           lcr_h |-> 30, stress_h |-> 90, stress_shock_bp |-> 100]

\* curve_x = [0.25, 1.0, 5.0, 10.0] with the rates of the sidebar
MainCurve == << [x |-> 25, y |-> 320], [x |-> 100, y |-> 350],
                [x |-> 500, y |-> 400], [x |-> 1000, y |-> 420] >>

\* the positions loaded from the workbook
Book == << Pos("asset", {"loan"}, 100, 500, "1Y"),
           Pos("asset", {"credit_line"}, 50, 300, "1Y"),
           Pos("liability", {"deposit", "demand"}, 100, 100, "3M"),
           Pos("liability", {"deposit"}, 300, 200, "3M"),
           Pos("liability", {"borrow"}, 100, 300, "6M"),
           Pos("hqla", {}, 60, 0, "3M") >>

\* slider positions a user can choose (steps of 0.005 and 0.05)
SliderHigh == [DefaultBehavioral EXCEPT !.loan_prepay_rate = 3000]

SliderLow == [DefaultBehavioral EXCEPT !.loan_prepay_rate = 2400]

SliderSets == {DefaultBehavioral, SliderHigh, SliderLow}

\* the scenario mapping of the rate tab (lines 5612-5620), labels shortened
Scenarios ==
    << [name |-> "BASE (0bp)", bp |-> 0], [name |-> "+50bp", bp |-> 50],
       [name |-> "+100bp", bp |-> 100], [name |-> "+200bp", bp |-> 200],
       [name |-> "+300bp", bp |-> 300], [name |-> "-50bp", bp |-> -50],
       [name |-> "-100bp", bp |-> -100] >>

\* st.session_state["_..."] = float(...) for the ten sliders (lines 3316-3325)
SessionOf(b) ==
    [_loan_prepay_rate |-> b.loan_prepay_rate,
     _loan_maturity_repay_rate |-> b.loan_maturity_repay_rate,
     _borrow_refinance_rate |-> b.borrow_refinance_rate,
     _credit_line_usage_rate |-> b.credit_line_usage_rate,
     _guarantee_usage_rate |-> b.guarantee_usage_rate,
     _core_deposit_ratio |-> b.core_deposit_ratio,
     _deposit_rollover_rate |-> b.deposit_rollover_rate,
     _deposit_early_withdraw_rate |-> b.deposit_early_withdraw_rate,
     _runoff_rate |-> b.runoff_rate,
     _early_term |-> b.early_termination]

SeqRange(f) == {f[k] : k \in DOMAIN f}

MainInit ==
    /\ EngineIdle
    /\ OptIdle
    /\ CallIdle
    /\ session_state = <<>>
    /\ m_behavioral = DefaultBehavioral
    /\ target_metric = "NPV"
    /\ m_pc = "sidebar"
    /\ base_k = NoKpi
    /\ stress_k = NoKpi
    /\ scenario_results = <<>>
    /\ sensitivity_results = <<>>
    /\ kpi_log = {}

\* the sidebar: the sliders are read, stored in the session and in `behavioral`
Sidebar ==
    /\ m_pc = "sidebar"
    /\ \E b \in SliderSets, metric \in {"NPV", "NII_YTD", "LCR"} :
          /\ session_state' = SessionOf(b)
          /\ m_behavioral' = b
          /\ target_metric' = metric
    /\ m_pc' = "base"
    /\ UNCHANGED <<base_k, stress_k, scenario_results, sensitivity_results, kpi_log>>
    /\ UNCHANGED evars
    /\ UNCHANGED cvars
    /\ UNCHANGED ovars

\* base_k, stress_k and the record of the two calls
BaseStressDone(base, stress) ==
    /\ base_k' = base.kpi
    /\ stress_k' = stress.kpi
    /\ kpi_log' = kpi_log \cup {base, stress}

\* BASE and STRESS runs (lines 3374-3390)
BaseStress ==
    /\ m_pc = "base"
    /\ BaseStressDone(
          KpiCall(Book, Config.start_date, Config.end_date, m_behavioral, 0,
                  Config.valuation_date, MainCurve, Config.lcr_h, Config.stress_h),
          KpiCall(Book, Config.start_date, Config.end_date, m_behavioral,
                  Config.stress_shock_bp, Config.valuation_date, MainCurve,
                  Config.lcr_h, Config.stress_h))
    /\ m_pc' = "scenarios"
    /\ UNCHANGED <<session_state, m_behavioral, target_metric, scenario_results,
                   sensitivity_results>>
    /\ UNCHANGED evars
    /\ UNCHANGED cvars
    /\ UNCHANGED ovars

\* the table of the rate tab and the record of the calls that filled it
ScenariosDone(calls) ==
    /\ scenario_results' = ScenarioTable(calls, Scenarios)
    /\ kpi_log' = kpi_log \cup SeqRange(calls)

\* the rate tab: run_rate_scenario_analysis (lines 5623-5632)
RateScenarios ==
    /\ m_pc = "scenarios"
    /\ ScenariosDone(ScenarioCalls(Book, Config.start_date, Config.end_date, m_behavioral,
                                   Config.valuation_date, MainCurve, Scenarios))
    /\ m_pc' = "sensitivity"
    /\ UNCHANGED <<session_state, m_behavioral, target_metric, base_k, stress_k,
                   sensitivity_results>>
    /\ UNCHANGED evars
    /\ UNCHANGED cvars
    /\ UNCHANGED ovars

\* the table of the tornado tab and the record of the calls that filled it
SensitivityDone(calls) ==
    /\ sensitivity_results' = SensitivityTable(calls, target_metric)
    /\ kpi_log' = kpi_log \cup {calls.base}
                     \cup {calls.steps[k].down : k \in DOMAIN calls.steps}
                     \cup {calls.steps[k].up : k \in DOMAIN calls.steps}

\* the tornado tab: run_sensitivity_analysis (lines 5763-5772)
Sensitivity ==
    /\ m_pc = "sensitivity"
    /\ SensitivityDone(SensitivityCalls(Book, Config.start_date, Config.end_date, m_behavioral,
                                        Config.valuation_date, MainCurve))
    /\ m_pc' = "end"
    /\ UNCHANGED <<session_state, m_behavioral, target_metric, base_k, stress_k,
                   scenario_results>>
    /\ UNCHANGED evars
    /\ UNCHANGED cvars
    /\ UNCHANGED ovars

\* a widget is touched: the script runs again from the top; its locals are gone,
\* the session state stays
Rerun ==
    /\ m_pc = "end"
    /\ m_pc' = "sidebar"
    /\ base_k' = NoKpi
    /\ stress_k' = NoKpi
    /\ scenario_results' = <<>>
    /\ sensitivity_results' = <<>>
    /\ UNCHANGED <<session_state, m_behavioral, target_metric, kpi_log>>
    /\ UNCHANGED evars
    /\ UNCHANGED cvars
    /\ UNCHANGED ovars

MainNext == Sidebar \/ BaseStress \/ RateScenarios \/ Sensitivity \/ Rerun

MainSpec == MainInit /\ [][MainNext]_vars

----------------------------------------------------------------------------
(* DV01 of the snapshots the script computed                                *)

\* the three DV01 fields of a snapshot are the three entries of d
Dv01FieldsAre(kpi, d) ==
    /\ kpi.DV01_NET = d.net
    /\ kpi.DV01_ASSET = d.asset
    /\ kpi.DV01_LIAB = d.liability

\* DV01 of the book over the analysis period under the given set
BookDv01(behavioral) ==
    Dv01(Book, behavioral, Config.start_date, Config.end_date, Config.valuation_date, MainCurve)

\* C1: in every snapshot the three DV01 fields are PV(+1bp) - PV(0bp) of two
\* re-projections under the parameter set that produced the cashflows of that call
C1_Dv01UsesCurrentSet ==
    \A c \in kpi_log : Dv01FieldsAre(c.kpi, BookDv01(c.behavioral))

\* a tornado step has been computed: a call whose set differs from the sliders' set
C1_PerturbedCall == \E c \in kpi_log : c.behavioral # m_behavioral /\ m_pc = "end"

\* C2: two calls with identical arguments (same positions, same cashflows, i.e. the
\* same producing set and shock, same valuation date, curve and horizons) return
\* identical snapshots, whatever the session state held at the time of each call
C2_PureInArguments ==
    \A c1, c2 \in kpi_log :
        (c1.behavioral = c2.behavioral /\ c1.shock = c2.shock) => c1.kpi = c2.kpi

\* the same arguments have been passed under two different session states
C2_SameArgumentsTwice ==
    \E c1, c2 \in kpi_log :
        /\ c1.behavioral = c2.behavioral /\ c1.shock = c2.shock
        /\ c1.kpi.DV01_ASSET # c2.kpi.DV01_ASSET
        /\ c1.kpi.NPV = c2.kpi.NPV

----------------------------------------------------------------------------
(* 4.6 Parameter optimizer: optimize_behavioral_params                      *)

\* methods = ["SLSQP", "trust-constr"]
methods == <<"SLSQP", "trust-constr">>

\* the loop over methods ends after its first pass
AfterMethodNone(method) == "finish"

\* the position after `method` in the loop over methods, "finish" after the last
AfterMethod(method) == IF method = methods[1] THEN methods[2] ELSE "finish"

\* x0 (lines 1748-1753): the four decision variables of base_behavioral
x0(base_behavioral) ==
    << Get(base_behavioral, "loan_prepay_rate", 300),
       Get(base_behavioral, "deposit_rollover_rate", 7500),
       Get(base_behavioral, "runoff_rate", 100),
       Get(base_behavioral, "early_termination", 50) >>

\* bounds (lines 1756-1761), in basis points
bounds == << <<10, 3000>>, <<3000, 9900>>, <<10, 3000>>, <<10, 3000>> >>

InBounds(x) == \A k \in 1..4 : bounds[k][1] <= x[k] /\ x[k] <= bounds[k][2]

\* behavioral_temp of objective and constraint_lcr: base_behavioral.copy() updated
\* with the four values of params
behavioral_temp(base_behavioral, params) ==
    WithParam(WithParam(WithParam(WithParam(base_behavioral,
        "loan_prepay_rate", params[1]),
        "deposit_rollover_rate", params[2]),
        "runoff_rate", params[3]),
        "early_termination", params[4])

\* the values of x written into another set of keys
OptimalParamsMisnamed(base_behavioral, x) ==
    WithParam(WithParam(WithParam(WithParam(base_behavioral,
        "loan_prepay_rate", x[1]),
        "deposit_rollover", x[2]),
        "runoff_rate", x[3]),
        "early_termination", x[4])

\* optimal_params (lines 1806-1812): base_behavioral.copy() updated with result.x
optimal_params(base_behavioral, x) ==
    WithParam(WithParam(WithParam(WithParam(base_behavioral,
        "loan_prepay_rate", x[1]),
        "deposit_rollover_rate", x[2]),
        "runoff_rate", x[3]),
        "early_termination", x[4])

\* the four assignments of behavioral_temp.update(...) and optimal_params.update(...)
ParamUpdates(params) ==
    << <<"loan_prepay_rate", params[1]>>, <<"deposit_rollover_rate", params[2]>>,
       <<"runoff_rate", params[3]>>, <<"early_termination", params[4]>> >>

\* the caller's base_behavioral after one call of objective or constraint_lcr, or after
\* optimal_params was built
BaseAfterUpdate(base_behavioral, params) ==
    CopyUpdate(base_behavioral, ParamUpdates(params)).caller

\* an exception out of build_cashflow_schedule_fast or compute_kpis_pro
Raised == [ok |-> FALSE, kpi |-> NoKpi]

\* build_cashflow_schedule_fast followed by compute_kpis_pro(..., 30, 90) under a set:
\* the snapshot, or an exception at the parameter points where the pipeline raises
Pipeline(behavioral) ==
    IF x0(behavioral) \in o_raising THEN Raised
    ELSE [ok |-> TRUE,
          kpi |-> KpiCall(o_positions, Config.start_date, Config.end_date, behavioral, 0,
                          Config.valuation_date, MainCurve, 30, 90).kpi]

\* 1e15
Penalty == INF

\* return -kpi["NII_YTD"]; except: return 1e15
ObjectiveOf(r) == IF r.ok THEN -r.kpi.NII_YTD ELSE Penalty

objective(params) == ObjectiveOf(Pipeline(behavioral_temp(o_base_behavioral, params)))

\* return kpi["LCR"] - target_lcr; except: return -1e15
ConstraintOf(r, target_lcr) ==
    IF ~r.ok THEN -Penalty
    ELSE IF r.kpi.LCR = INF THEN INF
    ELSE r.kpi.LCR - target_lcr

constraint_lcr(params) ==
    ConstraintOf(Pipeline(behavioral_temp(o_base_behavioral, params)), o_target_lcr)

\* the parts a message is put together from
Part(name) == [part |-> name]

LcrPart(name, lcr, target) == [part |-> name, lcr |-> lcr, target |-> target]

\* the baseline probe (lines 1678-1697) once its pipeline run has ended
ProbeDone(r) ==
    IF ~r.ok
    THEN /\ o_ret' = [success |-> FALSE, message |-> <<Part("initial KPI failed")>>]
         /\ o_pc' = "returned"
         /\ UNCHANGED <<o_kpi_initial, o_target_lcr, o_warning_msg>>
    ELSE /\ o_kpi_initial' = r.kpi
         /\ IF o_target_lcr > RatioTimes(r.kpi.LCR, 3, 2)
            THEN /\ o_target_lcr' = RatioTimes(r.kpi.LCR, 6, 5)
                 /\ o_warning_msg' = << [part |-> "target adjusted", requested |-> o_target_lcr,
                                         adjusted |-> RatioTimes(r.kpi.LCR, 6, 5)] >>
            ELSE UNCHANGED <<o_target_lcr, o_warning_msg>>
         /\ o_pc' = methods[1]
         /\ UNCHANGED o_ret

Probe ==
    /\ o_pc = "probe"
    /\ ProbeDone(Pipeline(o_base_behavioral))
    /\ UNCHANGED <<o_positions, o_base_behavioral, o_requested, o_raising, o_last, o_result>>
    /\ UNCHANGED <<session_state>>
    /\ UNCHANGED evars
    /\ UNCHANGED cvars
    /\ UNCHANGED mvars

\* the candidate points of the model: the start point and two corners of the box
PointSafe == <<10, 9900, 10, 10>>

PointRisky == <<3000, 3000, 3000, 3000>>

SolverPoints(base_behavioral) == {x0(base_behavioral), PointSafe, PointRisky}

\* the running solver evaluates the objective and the constraint at a point
Evaluate ==
    /\ o_pc \in {methods[1], methods[2]}
    /\ \E x \in SolverPoints(o_base_behavioral) :
          /\ o_last' = [present |-> TRUE, x |-> x, f |-> objective(x), c |-> constraint_lcr(x)]
          /\ o_base_behavioral' = BaseAfterUpdate(BaseAfterUpdate(o_base_behavioral, x), x)
    /\ UNCHANGED <<o_positions, o_requested, o_raising, o_target_lcr,
                   o_warning_msg, o_kpi_initial, o_result, o_ret, o_pc>>
    /\ UNCHANGED <<session_state>>
    /\ UNCHANGED evars
    /\ UNCHANGED cvars
    /\ UNCHANGED mvars

\* minimize() returns a result with success = True at a point it evaluated: break
SolverSucceeds ==
    /\ o_pc \in {methods[1], methods[2]}
    /\ o_last.present
    /\ o_result' = [present |-> TRUE, success |-> TRUE, x |-> o_last.x]
    /\ o_last' = NoEvaluation
    /\ o_pc' = "finish"
    /\ UNCHANGED <<o_positions, o_base_behavioral, o_requested, o_raising, o_target_lcr,
                   o_warning_msg, o_kpi_initial, o_ret>>
    /\ UNCHANGED <<session_state>>
    /\ UNCHANGED evars
    /\ UNCHANGED cvars
    /\ UNCHANGED mvars

\* minimize() returns a result with success = False: the next method is tried
SolverFails ==
    /\ o_pc \in {methods[1], methods[2]}
    /\ o_result' = [present |-> TRUE, success |-> FALSE, x |-> <<>>]
    /\ o_last' = NoEvaluation
    /\ o_pc' = AfterMethod(o_pc)
    /\ UNCHANGED <<o_positions, o_base_behavioral, o_requested, o_raising, o_target_lcr,
                   o_warning_msg, o_kpi_initial, o_ret>>
    /\ UNCHANGED <<session_state>>
    /\ UNCHANGED evars
    /\ UNCHANGED cvars
    /\ UNCHANGED mvars

\* minimize() raises: except Exception: continue, result keeps its value
SolverRaises ==
    /\ o_pc \in {methods[1], methods[2]}
    /\ o_last' = NoEvaluation
    /\ o_pc' = AfterMethod(o_pc)
    /\ UNCHANGED <<o_positions, o_base_behavioral, o_requested, o_raising, o_target_lcr,
                   o_warning_msg, o_kpi_initial, o_result, o_ret>>
    /\ UNCHANGED <<session_state>>
    /\ UNCHANGED evars
    /\ UNCHANGED cvars
    /\ UNCHANGED mvars

\* the recomputation at the optimal parameters raised and nothing caught it
RecomputeDoneUncaught(params, r) ==
    IF r.ok
    THEN /\ o_ret' = [success |-> TRUE, optimal_params |-> params, optimal_kpi |-> r.kpi,
                      message |-> <<Part("optimization succeeded")>> \o o_warning_msg]
         /\ o_pc' = "returned"
    ELSE /\ o_pc' = "raised"
         /\ UNCHANGED o_ret

\* lines 1815-1836: the KPI recomputation at optimal_params has ended
RecomputeDone(params, r) ==
    /\ o_ret' = IF r.ok
                THEN [success |-> TRUE, optimal_params |-> params, optimal_kpi |-> r.kpi,
                      message |-> <<Part("optimization succeeded")>> \o o_warning_msg]
                ELSE [success |-> FALSE, message |-> <<Part("optimal KPI failed")>>]
    /\ o_pc' = "returned"

\* if result is not None and result.success (lines 1804-1836)
FinishSolved ==
    /\ o_pc = "finish"
    /\ o_result.present /\ o_result.success
    /\ RecomputeDone(optimal_params(o_base_behavioral, o_result.x),
                     Pipeline(optimal_params(o_base_behavioral, o_result.x)))
    /\ o_base_behavioral' = BaseAfterUpdate(o_base_behavioral, o_result.x)
    /\ UNCHANGED <<o_positions, o_requested, o_raising, o_target_lcr,
                   o_warning_msg, o_kpi_initial, o_last, o_result>>
    /\ UNCHANGED <<session_state>>
    /\ UNCHANGED evars
    /\ UNCHANGED cvars
    /\ UNCHANGED mvars

\* the fallback judged against the target as it was requested
FallbackAgainstRequested(c, message) ==
    o_ret' = IF c >= 0 /\ o_kpi_initial.LCR >= o_requested
             THEN [success |-> TRUE, optimal_params |-> o_base_behavioral,
                   optimal_kpi |-> o_kpi_initial,
                   message |-> message \o <<LcrPart("already satisfied", o_kpi_initial.LCR,
                                                    o_target_lcr)>>]
             ELSE [success |-> FALSE,
                   message |-> message \o <<LcrPart("not reachable", o_kpi_initial.LCR,
                                                    o_target_lcr)>>]

\* the fallback hands back the start point merged over the defaults
FallbackDefaults(c, message) ==
    o_ret' = IF c >= 0
             THEN [success |-> TRUE,
                   optimal_params |-> optimal_params(DefaultBehavioral, x0(o_base_behavioral)),
                   optimal_kpi |-> o_kpi_initial,
                   message |-> message \o <<LcrPart("already satisfied", o_kpi_initial.LCR,
                                                    o_target_lcr)>>]
             ELSE [success |-> FALSE,
                   message |-> message \o <<LcrPart("not reachable", o_kpi_initial.LCR,
                                                    o_target_lcr)>>]

\* lines 1843-1859: c is constraint_lcr(x0), message the text put together so far
Fallback(c, message) ==
    o_ret' = IF c >= 0
             THEN [success |-> TRUE, optimal_params |-> o_base_behavioral,
                   optimal_kpi |-> o_kpi_initial,
                   message |-> message \o <<LcrPart("already satisfied", o_kpi_initial.LCR,
                                                    o_target_lcr)>>]
             ELSE [success |-> FALSE,
                   message |-> message \o <<LcrPart("not reachable", o_kpi_initial.LCR,
                                                    o_target_lcr)>>]

\* else (lines 1837-1859): no result with success = True
FinishFallback ==
    /\ o_pc = "finish"
    /\ ~(o_result.present /\ o_result.success)
    /\ Fallback(constraint_lcr(x0(o_base_behavioral)),
                <<Part("optimization failed")>>
                    \o (IF o_result.present THEN <<Part("solver message")>> ELSE <<>>))
    /\ o_pc' = "returned"
    /\ o_base_behavioral' = CopyUpdate(BaseAfterUpdate(o_base_behavioral, x0(o_base_behavioral)),
                                       <<>>).caller
    /\ UNCHANGED <<o_positions, o_requested, o_raising, o_target_lcr,
                   o_warning_msg, o_kpi_initial, o_last, o_result>>
    /\ UNCHANGED <<session_state>>
    /\ UNCHANGED evars
    /\ UNCHANGED cvars
    /\ UNCHANGED mvars

\* the book of main with another stock of liquid assets
BookWithHqla(hqla) ==
    [k \in 1..Len(Book) |-> IF Book[k].type = "hqla" THEN [Book[k] EXCEPT !.balance = hqla]
                            ELSE Book[k]]

OptBooks == {Book, BookWithHqla(30), BookWithHqla(0)}

\* a second slider position
SliderOther ==
    [DefaultBehavioral EXCEPT !.loan_maturity_repay_rate = 9000, !.core_deposit_ratio = 5000,
                              !.deposit_rollover_rate = 8000, !.runoff_rate = 200]

OptBases == {DefaultBehavioral, SliderOther}

\* target_lcr of the number input (1.0 to 3.0), in thousandths
OptTargets == {1000, 2000, 3000}

RaisingSets(base_behavioral) == {{}, {x0(base_behavioral)}, {PointRisky}}

OptInit ==
    /\ EngineIdle
    /\ MainIdle
    /\ CallIdle
    /\ o_positions \in OptBooks
    /\ o_base_behavioral \in OptBases
    /\ o_requested \in OptTargets
    /\ o_raising \in RaisingSets(o_base_behavioral)
    /\ o_target_lcr = o_requested
    /\ o_warning_msg = <<>>
    /\ o_kpi_initial = NoKpi
    /\ o_last = NoEvaluation
    /\ o_result = NoResult
    /\ o_ret = NoReturn
    /\ o_pc = "probe"
    /\ session_state = SessionOf(o_base_behavioral)

OptNext ==
    \/ Probe
    \/ Evaluate
    \/ SolverSucceeds
    \/ SolverFails
    \/ SolverRaises
    \/ FinishSolved
    \/ FinishFallback

OptSpec == OptInit /\ [][OptNext]_vars

----------------------------------------------------------------------------
(* What a call of optimize_behavioral_params returns                        *)

Returned == o_pc = "returned"

HasPart(message, name) == \E k \in DOMAIN message : message[k].part = name

\* the baseline probe went through: kpi_initial is there
ProbeOk == Returned /\ ~HasPart(o_ret.message, "initial KPI failed")

\* a minimize() call returned a result with success = True
SolverSucceeded == o_result.present /\ o_result.success

\* the snapshot of the pipeline at a parameter set, computed afresh
SnapshotAt(behavioral) ==
    KpiCall(o_positions, Config.start_date, Config.end_date, behavioral, 0,
            Config.valuation_date, MainCurve, 30, 90).kpi

\* C3: no exception leaves the call: it never ends in "raised", whatever the probe,
\* the evaluations, the solvers and the final recomputation did, and what it returns
\* carries a boolean success and a message
C3_NoExceptionEscapes ==
    /\ o_pc \in {"probe", "SLSQP", "trust-constr", "finish", "returned"}
    /\ o_last.present => (o_last.f = Penalty) = (o_last.c = -Penalty)
    /\ Returned => /\ DOMAIN o_ret \in {{"success", "message"},
                                        {"success", "message", "optimal_params", "optimal_kpi"}}
                   /\ o_ret.success \in BOOLEAN
                   /\ Len(o_ret.message) >= 1

\* the recomputation at the optimal parameters raised and the call returned a failure
C3_Witness == Returned /\ HasPart(o_ret.message, "optimal KPI failed")

\* C4 as claimed: whenever the baseline LCR meets the requested target the call
\* returns success with optimal_params equal to the input set, whatever the solvers did
C4_Idempotence ==
    (ProbeOk /\ o_kpi_initial.LCR >= o_requested)
        => (o_ret.success /\ o_ret.optimal_params = o_base_behavioral)

\* C4 amended: whenever the baseline LCR meets the requested target and no solver
\* reports success, the call returns success with optimal_params equal to the input set
C4_IdempotenceWithoutSolverSuccess ==
    (ProbeOk /\ o_kpi_initial.LCR >= o_requested /\ ~SolverSucceeded)
        => (o_ret.success /\ o_ret.optimal_params = o_base_behavioral)

C4_Witness ==
    /\ ProbeOk /\ o_kpi_initial.LCR >= o_requested /\ ~SolverSucceeded
    /\ o_result.present /\ o_base_behavioral # DefaultBehavioral

\* the target the probe leaves for a baseline LCR: 1.2 x baseline when the requested
\* target exceeds 1.5 x baseline, the requested target otherwise
EffectiveTarget(requested, initial_lcr) ==
    IF 2 * requested > 3 * Min(initial_lcr, RatioCap \div 4)
    THEN (6 * Min(initial_lcr, RatioCap \div 8)) \div 5
    ELSE requested

\* C5: the constraint uses the clamped target, and every result returned after a
\* clamp has a message that records the adjustment
C5_AdjustmentRecorded ==
    ProbeOk
        => /\ o_target_lcr = EffectiveTarget(o_requested, o_kpi_initial.LCR)
           /\ o_target_lcr # o_requested => HasPart(o_ret.message, "target adjusted")

\* the outcome of the fallback for a baseline snapshot
FallbackOutcomeIs(baseline) ==
    IF baseline.LCR >= o_target_lcr
    THEN /\ o_ret.success
         /\ o_ret.optimal_params = o_base_behavioral
         /\ o_ret.optimal_kpi = baseline
    ELSE /\ ~o_ret.success
         /\ \E k \in DOMAIN o_ret.message :
               /\ DOMAIN o_ret.message[k] = {"part", "lcr", "target"}
               /\ o_ret.message[k].lcr = baseline.LCR
               /\ o_ret.message[k].target = o_target_lcr

\* C6: when no solver reports success the outcome is decided by the original
\* parameters alone: success with the original set and the baseline snapshot if
\* their LCR meets the effective target, else failure naming that LCR and the target
C6_FallbackDecidedByRecheck ==
    (ProbeOk /\ ~SolverSucceeded) => FallbackOutcomeIs(SnapshotAt(o_base_behavioral))

C6_Witness ==
    /\ ProbeOk /\ ~SolverSucceeded /\ HasPart(o_ret.message, "already satisfied")
    /\ o_target_lcr # o_requested

\* the returned set is the input set with the four decision variables replaced,
\* and the returned snapshot is the one of that set
MergedFrame(params, kpi) ==
    /\ DOMAIN params = DOMAIN o_base_behavioral
    /\ params.loan_prepay_rate = o_result.x[1]
    /\ params.deposit_rollover_rate = o_result.x[2]
    /\ params.runoff_rate = o_result.x[3]
    /\ params.early_termination = o_result.x[4]
    /\ \A k \in DOMAIN params \ {"loan_prepay_rate", "deposit_rollover_rate", "runoff_rate",
                                 "early_termination"} : params[k] = o_base_behavioral[k]
    /\ kpi = SnapshotAt(params)

\* C7: after a solver success the returned optimal_params are the input set with
\* exactly the four decision variables replaced by the solver's values, and
\* optimal_kpi is the snapshot at that set
C7_MergeFrame ==
    (Returned /\ SolverSucceeded /\ o_ret.success)
        => MergedFrame(o_ret.optimal_params, o_ret.optimal_kpi)

C7_Witness ==
    /\ Returned /\ SolverSucceeded /\ o_ret.success
    /\ o_result.x # x0(o_base_behavioral) /\ o_base_behavioral # DefaultBehavioral

\* C8: every result with success = true has an LCR of at least the effective target
C8_SuccessMeetsTarget ==
    (Returned /\ o_ret.success) => o_ret.optimal_kpi.LCR >= o_target_lcr

----------------------------------------------------------------------------
(* Direct calls of the public functions on chosen inputs                    *)

\* books handed to compute_kpis_pro: assets only, liabilities only, no position that
\* is projected, and the book of main with and without liquid assets
LoanBook == << Pos("asset", {"loan"}, 100, 500, "1Y"), Pos("asset", {}, 40, 300, "3M"),
               Pos("hqla", {}, 60, 0, "3M") >>

\* a credit line that earns less than is drawn, and one that earns more
CheapCreditLineBook == << Pos("asset", {"credit_line"}, 50, 100, "1Y"), Pos("hqla", {}, 60, 0, "3M") >>

DearCreditLineBook == << Pos("asset", {"credit_line"}, 50, 300, "1Y"), Pos("hqla", {}, 60, 0, "3M") >>

HqlaOnlyBook == << Pos("hqla", {}, 60, 0, "3M") >>

LiabilityBook == << Pos("liability", {"deposit"}, 300, 200, "3M"),
                    Pos("liability", {"borrow"}, 100, 300, "6M"),
                    Pos("hqla", {}, 60, 0, "3M") >>

\* liquid assets with a negative total and no position that is projected
OverdrawnHqlaBook == << Pos("hqla", {}, 20, 0, "3M"), Pos("hqla", {}, -30, 0, "3M") >>

\* loans that pay in, next to liquid assets that are overdrawn
OverdrawnLoanBook == << Pos("asset", {"loan"}, 300, 500, "3M"), Pos("hqla", {}, -2, 0, "3M") >>

KpiBooks == {LoanBook, CheapCreditLineBook, DearCreditLineBook, HqlaOnlyBook, LiabilityBook,
             Book, BookWithHqla(0), BookWithHqla(10), BookWithHqla(400), OverdrawnHqlaBook,
             OverdrawnLoanBook}

\* a curve that is neither rising nor falling, with a negative rate at its short end
NegativeRateCurve ==
    << [x |-> 25, y |-> -50], [x |-> 100, y |-> 300], [x |-> 500, y |-> 100], [x |-> 1000, y |-> 2000] >>

\* valuation date, horizons, shock and curve of a call
KpiArgs ==
    [valuation_date : {ValuationDay, MainDays - 1}, lcr_h : {10, 30}, stress_h : {5, 30, 90},
     shock : {0, -100}, curve : {MainCurve, NegativeRateCurve}]

\* scenario mappings in insertion order: the one of the spec's example, a shorter one
\* in another order, the empty one and the one of the rate tab
ScenarioMappings ==
    { << [name |-> "A", bp |-> 0], [name |-> "B", bp |-> 50], [name |-> "C", bp |-> -50] >>,
      << [name |-> "C", bp |-> -50], [name |-> "A", bp |-> 0] >>,
      << [name |-> "B", bp |-> 50], [name |-> "B2", bp |-> 50] >>,
      << >>,
      Scenarios }

\* the swept parameter and its candidate values: the grids of the gap tab thinned to
\* three points, one of them out of order, and an empty grid
GapArgs ==
    [param_name : {"runoff_rate", "loan_prepay_rate", "early_termination"},
     param_range : {<<10, 1500, 3000>>, <<3000, 10, 1500>>, <<>>}]
    \cup [param_name : {"deposit_rollover_rate"}, param_range : {<<3000, 6500, 10000>>}]

\* books handed to the engine: with positions of balance 0 and below 0, and empty
MixedBook == << Pos("asset", {"loan"}, 100, 500, "1Y"), Pos("asset", {}, 0, 300, "3M"),
                Pos("liability", {"borrow"}, -50, 300, "6M"), Pos("hqla", {}, 60, 0, "3M"),
                Pos("liability", {"deposit"}, 300, 200, "3M") >>

EngineCallBooks == {Book, LoanBook, LiabilityBook, HqlaOnlyBook, MixedBook, <<>>}

\* a Behavioral Parameter Set without any key, and one with a single key
NoBehavioral == [k \in {} |-> 0]

PrepayOnlyBehavioral == [k \in {"loan_prepay_rate"} |-> 3000]

EngineCallBehaviorals == {DefaultBehavioral, SliderHigh, NoBehavioral, PrepayOnlyBehavioral}

\* end_date and rate_shock_bp of an engine call (start_date is day 0): the period of
\* main, a single day, and an end before the start
EngineCallArgs == [end_date : {MainDays - 1, 0, -1}, shock : {0, 50, -100}]

\* curves with strictly increasing tenors: the one of main, an inverted one, one that
\* is neither rising nor falling with a negative rate, a flat one and one of two points
Curves ==
    { MainCurve,
      << [x |-> 25, y |-> 500], [x |-> 100, y |-> 420], [x |-> 500, y |-> 300], [x |-> 1000, y |-> 250] >>,
      NegativeRateCurve,
      << [x |-> 25, y |-> 300], [x |-> 100, y |-> 300], [x |-> 500, y |-> 300], [x |-> 1000, y |-> 300] >>,
      << [x |-> 100, y |-> 100], [x |-> 200, y |-> 831] >> }

\* horizons in days: before, at, between and after the tenors of 3M, 1Y, 2Y, 5Y, 10Y
CurveDays == {0, 30, 91, 92, 200, 364, 365, 366, 500, 730, 1000, 1825, 1826, 3000, 3650, 4000}

\* valuation dates before, at the start of, within, at the end of and after the period
PvValuationDays == {-3, 0, ValuationDay, MainDays - 1, MainDays + 2}

CallInit ==
    /\ EngineIdle
    /\ MainIdle
    /\ c_pc = "call"
    /\ c_cf = EmptyTable
    /\ c_out = <<>>
    /\ \/ /\ OptIdle
          /\ c_behavioral \in {DefaultBehavioral, SliderHigh}
          /\ session_state = SessionOf(c_behavioral)
          /\ \/ /\ c_fn = "compute_kpis_pro"
                /\ c_positions \in KpiBooks
                /\ c_arg \in KpiArgs
             \/ /\ c_fn = "run_behavioral_gap_analysis"
                /\ c_positions \in {Book, LiabilityBook, HqlaOnlyBook, BookWithHqla(10)}
                /\ c_arg \in GapArgs
             \/ /\ c_fn = "run_sensitivity_analysis"
                /\ c_positions \in {Book, LoanBook, LiabilityBook, HqlaOnlyBook, BookWithHqla(400)}
                /\ c_arg \in [target_metric : {"NPV", "NII_YTD", "LCR"}]
             \/ /\ c_fn = "run_rate_scenario_analysis"
                /\ c_positions \in {Book, LoanBook, HqlaOnlyBook}
                /\ c_arg \in ScenarioMappings
       \/ /\ OptIdle
          /\ c_fn = "build_cashflow_schedule_fast"
          /\ c_behavioral \in EngineCallBehaviorals
          /\ session_state = SessionOf(DefaultBehavioral)
          /\ c_positions \in EngineCallBooks
          /\ c_arg \in EngineCallArgs
       \/ /\ OptIdle
          /\ c_fn = "curve_rate_for_years"
          /\ c_behavioral = DefaultBehavioral
          /\ session_state = SessionOf(DefaultBehavioral)
          /\ c_positions = <<>>
          /\ c_arg \in [curve : Curves, t_days : CurveDays]
       \/ /\ OptIdle
          /\ c_fn = "pv_breakdown_by_type_with_curve"
          /\ c_behavioral = DefaultBehavioral
          /\ session_state = SessionOf(DefaultBehavioral)
          /\ c_positions \in {Book, LoanBook, LiabilityBook, HqlaOnlyBook}
          /\ c_arg \in [curve : Curves, valuation_date : PvValuationDays, shock : {0, 100}]
       \/ /\ c_fn = "optimize_behavioral_params"
          /\ c_behavioral \in {DefaultBehavioral, SliderHigh}
          /\ session_state = SessionOf(c_behavioral)
          /\ c_positions = Book
          /\ c_arg \in [target_lcr : {1000, 3000}]
          /\ o_positions = c_positions
          /\ o_base_behavioral = c_behavioral
          /\ o_requested = c_arg.target_lcr
          /\ o_raising \in RaisingSets(o_base_behavioral)
          /\ o_target_lcr = o_requested
          /\ o_warning_msg = <<>>
          /\ o_kpi_initial = NoKpi
          /\ o_last = NoEvaluation
          /\ o_result = NoResult
          /\ o_ret = NoReturn
          /\ o_pc = "probe"

\* the cashflow table and the snapshot of it
KpiRunDone(cf) ==
    /\ c_cf' = cf
    /\ c_out' = compute_kpis_pro(c_positions, cf, c_arg.valuation_date, c_arg.curve,
                                 c_arg.lcr_h, c_arg.stress_h)

\* the engine projects the book and compute_kpis_pro is called on the table
KpiRun ==
    /\ c_fn = "compute_kpis_pro"
    /\ c_pc = "call"
    /\ KpiRunDone(BuildCashflowScheduleFast(c_positions, 0, MainDays - 1, c_behavioral,
                                            c_arg.shock))
    /\ c_pc' = "done"
    /\ UNCHANGED <<c_fn, c_positions, c_behavioral, c_arg, session_state>>
    /\ UNCHANGED evars
    /\ UNCHANGED mvars
    /\ UNCHANGED ovars

\* run_rate_scenario_analysis(positions, start, end, behavioral, valuation_date, curve, scenarios)
ScenarioRun ==
    /\ c_fn = "run_rate_scenario_analysis"
    /\ c_pc = "call"
    /\ c_out' = run_rate_scenario_analysis(c_positions, 0, MainDays - 1, c_behavioral,
                                           ValuationDay, MainCurve, c_arg)
    /\ c_pc' = "done"
    /\ UNCHANGED <<c_fn, c_positions, c_behavioral, c_arg, c_cf, session_state>>
    /\ UNCHANGED evars
    /\ UNCHANGED mvars
    /\ UNCHANGED ovars

\* run_behavioral_gap_analysis(positions, start, end, base_behavioral, valuation_date, ...)
GapRun ==
    /\ c_fn = "run_behavioral_gap_analysis"
    /\ c_pc = "call"
    /\ c_out' = run_behavioral_gap_analysis(c_positions, 0, MainDays - 1, c_behavioral,
                                            ValuationDay, c_arg.param_name, c_arg.param_range)
    /\ c_behavioral' = GapCallerAfter(c_behavioral, c_arg.param_name, c_arg.param_range)
    /\ c_pc' = "done"
    /\ UNCHANGED <<c_fn, c_positions, c_arg, c_cf, session_state>>
    /\ UNCHANGED evars
    /\ UNCHANGED mvars
    /\ UNCHANGED ovars

\* run_sensitivity_analysis(positions, start, end, base_behavioral, valuation_date, curve,
\* target_metric); c_cf keeps cf_base
SensitivityRun ==
    /\ c_fn = "run_sensitivity_analysis"
    /\ c_pc = "call"
    /\ c_cf' = BuildCashflowScheduleFast(c_positions, 0, MainDays - 1, c_behavioral, 0)
    /\ c_out' = run_sensitivity_analysis(c_positions, 0, MainDays - 1, c_behavioral,
                                         ValuationDay, MainCurve, c_arg.target_metric)
    /\ c_behavioral' = SensitivityCallerAfter(c_behavioral, ParamsToTestOf(c_behavioral))
    /\ c_pc' = "done"
    /\ UNCHANGED <<c_fn, c_positions, c_arg, session_state>>
    /\ UNCHANGED evars
    /\ UNCHANGED mvars
    /\ UNCHANGED ovars

\* build_cashflow_schedule_fast(positions, start, end, behavioral, rate_shock_bp): the
\* engine only reads the set, through behavioral.get
EngineRun ==
    /\ c_fn = "build_cashflow_schedule_fast"
    /\ c_pc = "call"
    /\ c_out' = BuildCashflowScheduleFast(c_positions, 0, c_arg.end_date, c_behavioral, c_arg.shock)
    /\ c_behavioral' = c_behavioral
    /\ c_pc' = "done"
    /\ UNCHANGED <<c_fn, c_positions, c_arg, c_cf, session_state>>
    /\ UNCHANGED evars
    /\ UNCHANGED mvars
    /\ UNCHANGED ovars

\* curve_rate_for_years(t_years, curve_x, curve_y) for one horizon
CurveRun ==
    /\ c_fn = "curve_rate_for_years"
    /\ c_pc = "call"
    /\ c_out' = curve_rate_for_years(c_arg.t_days, c_arg.curve)
    /\ c_pc' = "done"
    /\ UNCHANGED <<c_fn, c_positions, c_behavioral, c_arg, c_cf, session_state>>
    /\ UNCHANGED evars
    /\ UNCHANGED mvars
    /\ UNCHANGED ovars

\* pv_breakdown_by_type_with_curve and pv_from_cashflows_with_curve on one table
PvRun ==
    /\ c_fn = "pv_breakdown_by_type_with_curve"
    /\ c_pc = "call"
    /\ c_cf' = BuildCashflowScheduleFast(c_positions, 0, MainDays - 1, c_behavioral, c_arg.shock)
    /\ c_out' = [breakdown |-> pv_breakdown_by_type_with_curve(c_cf', c_arg.valuation_date, c_arg.curve),
                 pv |-> pv_from_cashflows_with_curve(c_cf', c_arg.valuation_date, c_arg.curve)]
    /\ c_pc' = "done"
    /\ UNCHANGED <<c_fn, c_positions, c_behavioral, c_arg, session_state>>
    /\ UNCHANGED evars
    /\ UNCHANGED mvars
    /\ UNCHANGED ovars

CallNext ==
    \/ CurveRun
    \/ PvRun
    \/ KpiRun
    \/ ScenarioRun
    \/ GapRun
    \/ SensitivityRun
    \/ EngineRun
    \/ Probe
    \/ Evaluate
    \/ SolverSucceeds
    \/ SolverFails
    \/ SolverRaises
    \/ FinishSolved
    \/ FinishFallback

CallSpec == CallInit /\ [][CallNext]_vars

----------------------------------------------------------------------------
(* Snapshots of compute_kpis_pro                                            *)

KpiDone == c_fn = "compute_kpis_pro" /\ c_pc = "done"

\* no liability position and a positive stock of liquid assets
NoLiabilityWithHqla(positions) ==
    /\ \A k \in DOMAIN positions : positions[k].type # "liability"
    /\ SumBalances(positions, "hqla") > 0

\* every asset is a position whose cashflows are inflows: no credit-line commitment
\* and an effective rate >= 0
InflowAssetsOnly(positions, shock) ==
    \A k \in DOMAIN positions :
        positions[k].type = "asset"
            => ~Has(positions[k].product, "credit_line") /\ positions[k].rate + shock >= 0

\* C14 as claimed: no liability and HQLA > 0 give LCR = +infinity whatever the assets
C14_NoLiabilityLcrInfinite ==
    (KpiDone /\ NoLiabilityWithHqla(c_positions)) => c_out.LCR = INF

\* C14 amended: no liability, HQLA > 0 and assets whose cashflows are inflows (no
\* credit-line commitment, effective rate >= 0) give LCR = +infinity
C14_InflowAssetsLcrInfinite ==
    (KpiDone /\ NoLiabilityWithHqla(c_positions) /\ InflowAssetsOnly(c_positions, c_arg.shock))
        => c_out.LCR = INF

\* an asset-only book with cashflows inside the liquidity window
C14_Witness ==
    /\ KpiDone /\ c_positions = LoanBook /\ c_arg.valuation_date = ValuationDay
    /\ WindowSum(c_cf, c_arg.valuation_date, c_arg.lcr_h) > 0
    /\ c_out.LCR = INF

\* the sum of the cashflow of all rows dated in (valuation_date, valuation_date + horizon],
\* taken row by row from the table
SumOfRowsInWindow(cashflows, valuation_date, horizon) ==
    LET lo == valuation_date + 1 - cashflows.start + 1
        hi == Min(cashflows.n, valuation_date + horizon - cashflows.start + 1)
        perRow == [k \in 1..Len(cashflows.rows) |-> SumSeq(cashflows.rows[k].cashflow, lo, hi)]
    IN  SumSeq(perRow, 1, Len(cashflows.rows))

\* lcr (in thousandths) times net_outflow is hqla: the whole part of the ratio is
\* exact and its thousandths are right to within two
LcrTimesOutflowIsHqla(lcr, net_outflow, hqla) ==
    LET q == lcr \div 1000
        rest == hqla - q * net_outflow
        part == net_outflow \div 1000
    IN  \/ lcr = RatioCap /\ hqla \div net_outflow >= 1000 * 1000
        \/ /\ rest >= 0 /\ rest < net_outflow
           /\ (lcr % 1000) * part <= rest + 2 * part + 2000
           /\ (lcr % 1000) * part >= rest - 2 * part - 2000

\* the three statements of C15 about one snapshot and the table it was computed from
OutflowAndLcrAgree(kpi, cashflows, valuation_date, horizon) ==
    /\ kpi.NetOutflow_30D = Max(0, -SumOfRowsInWindow(cashflows, valuation_date, horizon))
    /\ kpi.NetOutflow_30D >= 0
    /\ (kpi.LCR = INF) = (kpi.NetOutflow_30D = 0)
    /\ kpi.NetOutflow_30D > 0 => LcrTimesOutflowIsHqla(kpi.LCR, kpi.NetOutflow_30D, kpi.HQLA)

\* C15: NetOutflow_30D is max(0, -(sum of the cashflow dated after the valuation date up
\* to valuation date + horizon)), LCR is +infinity exactly when it is 0, and otherwise
\* LCR x NetOutflow_30D = HQLA
C15_NetOutflowAndLcr ==
    KpiDone => OutflowAndLcrAgree(c_out, c_cf, c_arg.valuation_date, c_arg.lcr_h)

\* a finite LCR over a window that the horizon cuts short
C15_Witness ==
    /\ KpiDone /\ c_arg.lcr_h = 10 /\ c_out.NetOutflow_30D > 0 /\ c_out.LCR < INF
    /\ c_out.HQLA > 0
    /\ SumOfRowsInWindow(c_cf, c_arg.valuation_date, 30) # SumOfRowsInWindow(c_cf, c_arg.valuation_date, 10)

\* the days of the table dated after the valuation date and within the horizon
WindowDays(cashflows, valuation_date, horizon) ==
    { d \in (valuation_date + 1)..(valuation_date + horizon) :
        d >= cashflows.start /\ d <= cashflows.start + cashflows.n - 1 }

\* hqla plus the net cashflow from the first day after the valuation date through d
\* is >= 0 on every day d of the window
BufferNeverNegative(hqla, cashflows, valuation_date, horizon) ==
    \A d \in WindowDays(cashflows, valuation_date, horizon) :
        hqla + SumOfRowsInWindow(cashflows, valuation_date, d - valuation_date) >= 0

\* the flag is 0 or 1, and 1 exactly when the buffer never goes negative; with no day
\* in the window that is: exactly when hqla >= 0
SurviveFlagIs(kpi, cashflows, valuation_date, horizon) ==
    /\ kpi.Stress_Survive \in {0, 1}
    /\ (kpi.Stress_Survive = 1)
          = (IF WindowDays(cashflows, valuation_date, horizon) = {} THEN kpi.HQLA >= 0
             ELSE BufferNeverNegative(kpi.HQLA, cashflows, valuation_date, horizon))

\* C16: Stress_Survive is 0 or 1, and it is 1 if and only if HQLA plus the cumulative
\* net cashflow is >= 0 on every day of the stress window; with no cashflow day in the
\* window it is 1 exactly when HQLA >= 0
C16_StressSurviveIffBuffer ==
    KpiDone => SurviveFlagIs(c_out, c_cf, c_arg.valuation_date, c_arg.stress_h)

\* the table is empty and the liquid assets are overdrawn: the flag is 1
C16_Witness ==
    /\ KpiDone /\ c_cf.rows = <<>> /\ c_out.HQLA < 0 /\ c_out.Stress_Survive = 1

----------------------------------------------------------------------------
(* Tables of the sweeps                                                     *)

ScenarioDone == c_fn = "run_rate_scenario_analysis" /\ c_pc = "done"

\* one row per entry of the mapping, in the mapping's order, tagged with name and shock
RowsFollowMapping(table, scenarios) ==
    /\ DOMAIN table = 1..Len(scenarios)
    /\ \A k \in 1..Len(scenarios) :
          table[k].scenario = scenarios[k].name /\ table[k].shock = scenarios[k].bp

\* C17: run_rate_scenario_analysis returns exactly one row per entry of the scenario
\* mapping, in the mapping's order, each tagged with its name and shock, also when the
\* projected cashflow table is empty
C17_ScenarioOrder == ScenarioDone => RowsFollowMapping(c_out, c_arg)

\* the mapping {A: 0, B: 50, C: -50} on a book whose cashflow table is empty
C17_Witness ==
    /\ ScenarioDone /\ c_positions = HqlaOnlyBook /\ Len(c_arg) = 3
    /\ c_arg[1].name = "A" /\ c_arg[3].bp = -50
    /\ c_out[3].scenario = "C" /\ c_out[3].LCR = INF

GapDone == c_fn = "run_behavioral_gap_analysis" /\ c_pc = "done"

\* row k is the one of candidate k: its surplus at each horizon is HQLA plus the cashflow
\* dated in (valuation_date, valuation_date + h], projected with only the swept
\* parameter replaced by the candidate
GapRowIs(row, positions, base_behavioral, valuation_date, param_name, param_value) ==
    LET cf == BuildCashflowScheduleFast(positions, 0, MainDays - 1,
                                        WithParam(base_behavioral, param_name, param_value), 0)
        hqla == SumBalances(positions, "hqla")
    IN  /\ row.value = param_value
        /\ row.SURPLUS_30D = hqla + SumOfRowsInWindow(cf, valuation_date, 30)
        /\ row.SURPLUS_90D = hqla + SumOfRowsInWindow(cf, valuation_date, 90)
        /\ row.SURPLUS_180D = hqla + SumOfRowsInWindow(cf, valuation_date, 180)

GapRowsFollowCandidates(table, positions, base_behavioral, valuation_date, param_name, param_range) ==
    /\ DOMAIN table = 1..Len(param_range)
    /\ \A k \in 1..Len(param_range) :
          GapRowIs(table[k], positions, base_behavioral, valuation_date, param_name, param_range[k])

\* C18: run_behavioral_gap_analysis returns, for every input, exactly one row per
\* candidate value in the order of the candidate list, and each row's surplus at 30, 90
\* and 180 days is HQLA plus the cashflow of the window, computed with only the swept
\* parameter replaced
C18_OneRowPerCandidate ==
    GapDone => GapRowsFollowCandidates(c_out, c_positions, c_behavioral, ValuationDay,
                                       c_arg.param_name, c_arg.param_range)

\* three candidates on a book of liquid assets only: the table comes back without rows
C18_Witness ==
    /\ GapDone /\ c_positions = HqlaOnlyBook
    /\ Len(c_arg.param_range) = 3 /\ Len(c_out) = 0

TornadoDone == c_fn = "run_sensitivity_analysis" /\ c_pc = "done"

\* kpi_base[target_metric], from cf_base
BaseValue == compute_kpis_pro(c_positions, c_cf, ValuationDay, MainCurve, 30, 90)[c_arg.target_metric]

\* the target metric after re-running the pipeline with one parameter at pct of its base
\* value and every other parameter at its base value
MetricAt(positions, base_behavioral, metric, param_name, base_val, pct) ==
    KpiCall(positions, 0, MainDays - 1, WithParam(base_behavioral, param_name, Frac(base_val, pct)),
            0, ValuationDay, MainCurve, 30, 90).kpi[metric]

\* the row of one tested parameter: its impacts are the percentage deviations of the
\* two re-runs from the baseline, its spread their absolute difference
TornadoRowIs(row, positions, base_behavioral, metric, base_value) ==
    /\ row.impact_down = Impact(MetricAt(positions, base_behavioral, metric, row.param, row.base_val, 8000), base_value)
    /\ row.impact_up = Impact(MetricAt(positions, base_behavioral, metric, row.param, row.base_val, 12000), base_value)
    /\ row.spread = Spread(row.impact_up, row.impact_down)

\* 8 rows, one per tested parameter, each computed from its own two re-runs
TornadoRows(table, positions, base_behavioral, metric, base_value) ==
    /\ DOMAIN table = 1..8
    /\ \A k \in 1..Len(ParamsToTest) :
          \E p \in 1..8 :
             /\ table[p].param = ParamsToTest[k][1]
             /\ table[p].base_val = Get(base_behavioral, ParamsToTest[k][1], ParamsToTest[k][2])
             /\ \A q \in 1..8 : table[q].param = table[p].param => q = p
    /\ \A p \in 1..8 : TornadoRowIs(table[p], positions, base_behavioral, metric, base_value)

\* a >= b as floats compare: false when either is nan
FloatGeq(a, b) == a # NAN /\ b # NAN /\ a >= b

RowWellDefined(row, base_value) ==
    /\ row.impact_down # NAN /\ row.impact_up # NAN /\ row.spread # NAN
    /\ base_value = 0 => row.impact_down = 0 /\ row.impact_up = 0 /\ row.spread = 0

\* C20: for every target metric and every baseline value, the -20% impact, the +20%
\* impact and the spread of every row are well-defined numbers, all 0 when the baseline
\* is 0, and never not-a-number when the baseline LCR is +infinity
C20_ImpactsWellDefined ==
    TornadoDone => \A p \in DOMAIN c_out : RowWellDefined(c_out[p], BaseValue)

\* target metric LCR on a book without net outflow: the baseline is +infinity and the
\* impacts and the spread of the first row are nan
C20_Witness ==
    /\ TornadoDone /\ c_arg.target_metric = "LCR" /\ BaseValue = INF
    /\ c_out[1].impact_down = NAN /\ c_out[1].impact_up = NAN /\ c_out[1].spread = NAN

----------------------------------------------------------------------------
(* The Behavioral Parameter Set of the caller                               *)

\* C21: after any call of build_cashflow_schedule_fast, run_behavioral_gap_analysis,
\* run_sensitivity_analysis or optimize_behavioral_params, on every return path, the
\* base parameter mapping passed in has the same keys and values as before: no step of
\* a call changes it
C21_CallerMappingKept ==
    [][c_behavioral' = c_behavioral /\ o_base_behavioral' = o_base_behavioral]_vars

\* the optimizer returned a set that differs from the one passed in, which is as it was
C21_Witness ==
    /\ c_fn = "optimize_behavioral_params" /\ o_pc = "returned" /\ o_ret.success
    /\ o_ret.optimal_params # o_base_behavioral
    /\ o_base_behavioral = c_behavioral

----------------------------------------------------------------------------
(* Tables of build_cashflow_schedule_fast                                   *)

EngineCallDone == c_fn = "build_cashflow_schedule_fast" /\ c_pc = "done"

\* the set misses one of the ten parameters of the engine
MissesParameter(behavioral) == DOMAIN DefaultBehavioral \ DOMAIN behavioral # {}

\* no position of the set is an asset or a liability
NoProjectedPosition(positions) ==
    \A k \in DOMAIN positions : positions[k].type \notin {"asset", "liability"}

\* the neutral result: an empty table, and the snapshot of it with zero KPIs, the sum
\* of the hqla balances and an infinite LCR
NeutralResult(positions, table, kpi) ==
    /\ table = EmptyTable
    /\ kpi.HQLA = SumBalances(positions, "hqla")
    /\ kpi.NII_YTD = 0 /\ kpi.NPV = 0
    /\ kpi.DV01_NET = 0 /\ kpi.DV01_ASSET = 0 /\ kpi.DV01_LIAB = 0
    /\ kpi.NetOutflow_30D = 0 /\ kpi.LCR = INF

\* the set with every missing parameter written out at its default
WithDefaults(behavioral) ==
    [k \in DOMAIN DefaultBehavioral \cup DOMAIN behavioral |->
        IF k \in DOMAIN behavioral THEN behavioral[k] ELSE DefaultBehavioral[k]]

\* C22 as stated: a set missing a parameter, an empty position set and an end before
\* the start each give an empty table, whose snapshot is neutral
C22_ShapeErrorsNeutral ==
    (EngineCallDone /\ (\/ MissesParameter(c_behavioral)
                        \/ NoProjectedPosition(c_positions)
                        \/ c_arg.end_date < 0))
        => NeutralResult(c_positions, c_out,
                         compute_kpis_pro(c_positions, c_out, 0, MainCurve, 30, 90))

\* C22: an empty position set and an end before the start give an empty table, whose
\* snapshot is neutral; a set missing a parameter gives the table of the set with the
\* default written in its place, and no call raises
C22_DefaultsAndNeutral ==
    EngineCallDone =>
        /\ (NoProjectedPosition(c_positions) \/ c_arg.end_date < 0)
              => NeutralResult(c_positions, c_out,
                               compute_kpis_pro(c_positions, c_out, 0, MainCurve, 30, 90))
        /\ c_out = BuildCashflowScheduleFast(c_positions, 0, c_arg.end_date,
                                             WithDefaults(c_behavioral), c_arg.shock)

\* a set without any parameter on the book of main: the table is not empty
C22_Witness ==
    /\ EngineCallDone /\ c_behavioral = NoBehavioral /\ c_positions = Book
    /\ c_arg.end_date = MainDays - 1
    /\ Len(c_out.rows) = 5

\* the positions that get rows: assets and liabilities with a balance above 0
Projected(positions) ==
    SelectSeq(positions, LAMBDA p : p.type \in {"asset", "liability"} /\ p.balance > 0)

\* the rows of one position: one per grid date, tagged with the position's category,
\* product label, bucket and originating balance
RowsOfPosition(rows, pos, n) ==
    /\ rows.type = pos.type /\ rows.product = pos.product
    /\ rows.maturity_bucket = pos.maturity_bucket /\ rows.balance0 = pos.balance
    /\ DOMAIN rows.cashflow = 1..n /\ DOMAIN rows.interest = 1..n /\ DOMAIN rows.principal = 1..n

\* the table holds the rows of the projected positions, in their order, and nothing else
RowCoverage(table, positions, n) ==
    IF Projected(positions) = <<>> THEN table = EmptyTable
    ELSE /\ table.start = 0 /\ table.n = n
         /\ DOMAIN table.rows = 1..Len(Projected(positions))
         /\ \A k \in 1..Len(Projected(positions)) :
               RowsOfPosition(table.rows[k], Projected(positions)[k], n)

\* the position set without its hqla positions
WithoutHqla(positions) == SelectSeq(positions, LAMBDA p : p.type # "hqla")

\* C23: on a grid of n >= 1 days the table holds exactly n rows, one per grid date, for
\* every asset or liability position with balance > 0, tagged with its category, product
\* label, bucket and originating balance, and no row for a position with balance <= 0 or
\* of category hqla; the table does not depend on the hqla positions
C23_RowCoverage ==
    (EngineCallDone /\ c_arg.end_date >= 0) =>
        /\ RowCoverage(c_out, c_positions, c_arg.end_date + 1)
        /\ c_out = BuildCashflowScheduleFast(WithoutHqla(c_positions), 0, c_arg.end_date,
                                             c_behavioral, c_arg.shock)

\* five positions, of which one has balance 0, one a balance below 0 and one is hqla:
\* the table holds the rows of the other two
C23_Witness ==
    /\ EngineCallDone /\ c_positions = MixedBook /\ c_arg.end_date = MainDays - 1
    /\ Len(c_out.rows) = 2 /\ Len(c_out.rows[2].cashflow) = MainDays
    /\ c_out.rows[2].balance0 = 300

----------------------------------------------------------------------------
(* Yield curve                                                              *)

CurveDone == c_fn = "curve_rate_for_years" /\ c_pc = "done"

\* a tenor in quarter days, the unit in which horizons and tenors are compared
TenorQuarterDays(point) == (point.x * 73) \div 5

\* r is the rate on the line through (xa, ra) and (xb, rb) at t, to within one basis
\* point of rounding: between ra and rb, and ra or rb at the ends
OnSegment(r, t, xa, ra, xb, rb) ==
    /\ Min(ra, rb) <= r /\ r <= Max(ra, rb)
    /\ Abs((r - ra) * (xb - xa) - (rb - ra) * (t - xa)) < xb - xa
    /\ t = xa => r = ra
    /\ t = xb => r = rb

\* the clamp below the first and above the last tenor, the line in between
RateAt(r, t, curve) ==
    /\ t <= TenorQuarterDays(curve[1]) => r = curve[1].y
    /\ t >= TenorQuarterDays(curve[Len(curve)]) => r = curve[Len(curve)].y
    /\ \A k \in 1..(Len(curve) - 1) :
          (TenorQuarterDays(curve[k]) <= t /\ t <= TenorQuarterDays(curve[k + 1]))
              => OnSegment(r, t, TenorQuarterDays(curve[k]), curve[k].y,
                           TenorQuarterDays(curve[k + 1]), curve[k + 1].y)

\* C24: for a curve with strictly increasing tenors, the rate at a horizon at or below
\* the first tenor is the first point's rate, at or above the last tenor the last
\* point's rate, and between two adjacent points the linear interpolation, which lies
\* between the two rates and equals the point's rate at each tenor
C24_ClampAndInterpolate == CurveDone => RateAt(c_out, 4 * c_arg.t_days, c_arg.curve)

\* a horizon of 1000 days on the curve of main, between the 1Y and the 5Y point
C24_Witness ==
    /\ CurveDone /\ c_arg.curve = MainCurve /\ c_arg.t_days = 1000
    /\ c_out > MainCurve[2].y /\ c_out < MainCurve[3].y

\* the derived curve: every rate of the curve increased by bp basis points
Shifted(curve, bp) == [k \in 1..Len(curve) |-> [x |-> curve[k].x, y |-> curve[k].y + bp]]

\* DV01 with the +1bp re-projection valued against the curve shifted by 1bp
Dv01OnShiftedCurve(positions, behavioral, start_date, end_date, valuation_date, curve) ==
    PvDiff(pv_breakdown_by_type_with_curve(
               BuildCashflowScheduleFast(positions, start_date, end_date, behavioral, 1),
               valuation_date, Shifted(curve, 1)),
           pv_breakdown_by_type_with_curve(
               BuildCashflowScheduleFast(positions, start_date, end_date, behavioral, 0),
               valuation_date, curve))

\* C25: a run with shock bp is valued against the curve with every rate increased by
\* bp/10000 (the 0bp run against the unshifted curve), and the DV01 +1bp probe against
\* the curve shifted by 1bp
C25_ShockReachesCurve ==
    (KpiDone /\ c_cf.rows # <<>>) =>
        /\ c_out.NPV = pv_from_cashflows_with_curve(c_cf, c_arg.valuation_date,
                                                    Shifted(c_arg.curve, c_arg.shock))
        /\ Dv01FieldsAre(c_out, Dv01OnShiftedCurve(c_positions, c_behavioral, 0, MainDays - 1,
                                                   c_arg.valuation_date, c_arg.curve))

\* a run with a shock of -100bp: its NPV is the value of its cashflows on the unshifted
\* curve, not on the shifted one
C25_Witness ==
    /\ KpiDone /\ c_cf.rows # <<>> /\ c_arg.shock = -100
    /\ c_out.NPV = pv_from_cashflows_with_curve(c_cf, c_arg.valuation_date, c_arg.curve)
    /\ c_out.NPV # pv_from_cashflows_with_curve(c_cf, c_arg.valuation_date,
                                                Shifted(c_arg.curve, c_arg.shock))

----------------------------------------------------------------------------
(* Present value                                                            *)

PvDone == c_fn = "pv_breakdown_by_type_with_curve" /\ c_pc = "done"

\* the rows of a table dated on its day indexes lo..hi
DaysOf(cashflows, lo, hi) ==
    [start |-> cashflows.start + lo - 1, n |-> hi - lo + 1,
     rows |-> [k \in 1..Len(cashflows.rows) |->
                 [cashflows.rows[k] EXCEPT !.cashflow = SubSeq(@, lo, hi),
                                           !.interest = SubSeq(@, lo, hi),
                                           !.principal = SubSeq(@, lo, hi)]]]

\* the day index of a date in a table
DayIndex(cashflows, date) == date - cashflows.start + 1

\* the table has a row dated on or after the valuation date
HasFutureRow(cashflows, valuation_date) ==
    cashflows.rows # <<>> /\ DayIndex(cashflows, valuation_date) <= cashflows.n

\* the three components and the single present value agree: net is asset + liability,
\* and the single value is that net to within the rounding of one unit per date
BreakdownAgrees(out, dates) ==
    /\ out.breakdown.net = out.breakdown.asset + out.breakdown.liability
    /\ Abs(out.breakdown.net - out.pv) <= dates

\* rows before the valuation date contribute nothing, rows on it count in full
DatesCounted(out, cashflows, valuation_date, curve) ==
    LET at == DayIndex(cashflows, valuation_date)
    IN  /\ at > 1 =>
              /\ out.pv = pv_from_cashflows_with_curve(DaysOf(cashflows, at, cashflows.n),
                                                       valuation_date, curve)
              /\ out.breakdown = pv_breakdown_by_type_with_curve(DaysOf(cashflows, at, cashflows.n),
                                                                 valuation_date, curve)
        /\ at >= 1 =>
              /\ pv_from_cashflows_with_curve(DaysOf(cashflows, at, at), valuation_date, curve)
                    = NetOn(cashflows, {"asset", "liability"}, at)
              /\ pv_breakdown_by_type_with_curve(DaysOf(cashflows, at, at), valuation_date, curve)
                    = PvBreak(NetOn(cashflows, {"asset"}, at), NetOn(cashflows, {"liability"}, at))

\* C26: pv_breakdown_by_type_with_curve returns net = asset + liability, equal to
\* pv_from_cashflows_with_curve on the same inputs; rows dated before the valuation date
\* contribute nothing, rows dated on it are discounted with factor 1, and an empty table
\* or one with no row on or after the valuation date gives 0 for every component
C26_BreakdownIsPv ==
    PvDone =>
        IF HasFutureRow(c_cf, c_arg.valuation_date)
        THEN /\ BreakdownAgrees(c_out, c_cf.n)
             /\ DatesCounted(c_out, c_cf, c_arg.valuation_date, c_arg.curve)
        ELSE c_out.pv = 0 /\ c_out.breakdown = PvBreak(0, 0)

\* the book of main valued 5 days into the period: both sides are there, the rows of
\* the first days are left out and the later ones are discounted
C26_Witness ==
    /\ PvDone /\ c_positions = Book /\ c_arg.valuation_date = ValuationDay
    /\ c_out.breakdown.asset > 0 /\ c_out.breakdown.liability < 0
    /\ c_out.pv # SumOfRowsInWindow(c_cf, ValuationDay - 1, MainDays)
    /\ c_out.pv # SumOfRowsInWindow(c_cf, -1, MainDays)

----------------------------------------------------------------------------
(* Rate shock                                                               *)

\* the shocks a projection is compared across
Shocks == {0, 50, -100}

\* sign * B(t) * (s2 - s1) / 10000 / 365 of one position, for every day of the grid
InterestOfShock(pos, behavioral, n, s1, s2) ==
    LET bal_path == Array(BalPath(pos.balance * UNIT, DecayOf(pos, behavioral), n), n)
        sign == IF pos.type = "asset" THEN 1 ELSE -1
    IN  [t \in 1..n |-> sign * PerDay(Frac(bal_path[t], s2 - s1))]

\* rows b are rows a with the interest moved by delta (to within the truncation of the
\* two interest legs) and the same principal
SameButInterest(a, b, delta, n) ==
    /\ a.type = b.type /\ a.product = b.product
    /\ a.maturity_bucket = b.maturity_bucket /\ a.balance0 = b.balance0
    /\ a.principal = b.principal
    /\ \A t \in 1..n : Abs(b.interest[t] - a.interest[t] - delta[t]) <= 2

\* in every row cashflow = interest + principal
CashflowIsSum(table) ==
    \A k \in 1..Len(table.rows) : \A t \in 1..table.n :
        table.rows[k].cashflow[t] = table.rows[k].interest[t] + table.rows[k].principal[t]

\* the projection with shock s2 against the one with shock s1
OnlyInterestMoves(a, b, positions, behavioral, s1, s2) ==
    /\ a.n = b.n /\ a.start = b.start
    /\ Len(a.rows) = Len(b.rows)
    /\ \A k \in 1..Len(a.rows) :
          SameButInterest(a.rows[k], b.rows[k],
                          Array(InterestOfShock(Projected(positions)[k], behavioral, a.n, s1, s2), a.n),
                          a.n)
    /\ CashflowIsSum(a) /\ CashflowIsSum(b)

\* C27: two projections that differ only in rate_shock_bp have rows that correspond one
\* to one, with identical principal and an interest that differs by
\* sign x B(t) x (s2 - s1)/10000/365, and in every row cashflow = interest + principal
C27_ShockOnlyInterest ==
    EngineCallDone =>
        \A s2 \in Shocks :
            OnlyInterestMoves(c_out,
                              BuildCashflowScheduleFast(c_positions, 0, c_arg.end_date,
                                                        c_behavioral, s2),
                              c_positions, c_behavioral, c_arg.shock, s2)

\* the book of main projected with a shock of 50bp: the loan's interest on the first
\* day is above the one without shock, its principal is the same
C27_Witness ==
    /\ EngineCallDone /\ c_positions = Book /\ c_arg.shock = 50 /\ c_arg.end_date = MainDays - 1
    /\ c_behavioral = DefaultBehavioral
    /\ c_out.rows[1].interest[1]
          > BuildCashflowScheduleFast(Book, 0, MainDays - 1, DefaultBehavioral, 0).rows[1].interest[1]
    /\ c_out.rows[1].principal[1] > 0

----------------------------------------------------------------------------
(* Order of the solvers                                                     *)

\* the step ends the run of solver m
Leaves(m) == o_pc = m /\ o_pc' # m

\* the minimize() call that ends with this step reported success
ReportsSuccess == ~o_result.success /\ o_result'.present /\ o_result'.success

\* one step of a call: the position moves probe -> SLSQP -> trust-constr -> finish and
\* never back; SLSQP is followed by trust-constr exactly when it raised or reported
\* non-success, otherwise by the end of the loop; the result kept is the point of the
\* solver that reported success, and nothing replaces it afterwards
SolverOrderStep ==
    /\ o_pc' = methods[1] => o_pc \in {"probe", methods[1]}
    /\ o_pc' = methods[2] => o_pc \in {methods[1], methods[2]}
    /\ Leaves(methods[1]) => /\ o_pc' \in {methods[2], "finish"}
                             /\ (o_pc' = methods[2]) = ~ReportsSuccess
    /\ Leaves(methods[2]) => o_pc' = "finish"
    /\ ReportsSuccess => /\ o_pc \in {methods[1], methods[2]} /\ o_pc' = "finish"
                         /\ o_last.present /\ o_result'.x = o_last.x
    /\ o_pc \in {"finish", "returned"} => o_result' = o_result

\* C28: the two solvers run strictly one after the other, SLSQP first; the second is
\* started if and only if the first raised or reported non-success; the result taken is
\* that of the first solver that reports success; an exception raised by one solver
\* call does not prevent the next solver from being tried
C28_SolverFallbackOrder == [][SolverOrderStep]_vars

\* SLSQP raised (no result is there) and trust-constr is evaluating a point
C28_Witness ==
    /\ o_pc = methods[2] /\ ~o_result.present /\ o_last.present

----------------------------------------------------------------------------
(* DV01 and liquidity of one snapshot                                       *)

\* every balance of the set is >= 0
NonNegativeBalances(positions) == \A k \in DOMAIN positions : positions[k].balance >= 0

\* every rate of the curve keeps 1 + r > 0
RatesAboveMinusOne(curve) == \A k \in DOMAIN curve : BP + curve[k].y > 0

NoLiability(positions) == \A k \in DOMAIN positions : positions[k].type # "liability"

\* C29: for a position set with non-negative balances and a curve whose rates keep
\* 1 + r > 0, DV01_ASSET >= 0, DV01_LIAB <= 0 and DV01_NET = DV01_ASSET + DV01_LIAB; a
\* book with no liability position has DV01_NET = DV01_ASSET >= 0
C29_Dv01SignAndSum ==
    (KpiDone /\ NonNegativeBalances(c_positions) /\ RatesAboveMinusOne(c_arg.curve)) =>
        /\ c_out.DV01_ASSET >= 0
        /\ c_out.DV01_LIAB <= 0
        /\ c_out.DV01_NET = c_out.DV01_ASSET + c_out.DV01_LIAB
        /\ NoLiability(c_positions) => c_out.DV01_NET = c_out.DV01_ASSET

\* the book of main on the curve with a negative rate: both sides have a DV01
C29_Witness ==
    /\ KpiDone /\ c_positions = Book /\ c_arg.curve = NegativeRateCurve
    /\ c_arg.valuation_date = ValuationDay
    /\ c_out.DV01_ASSET > 0 /\ c_out.DV01_LIAB < 0
    /\ c_out.DV01_NET = c_out.DV01_ASSET + c_out.DV01_LIAB

\* stress horizons a caller may ask for
StressHorizons == {0, 1, 5, 10, 30, 60}

\* the flag of the same call with another stress horizon
SurviveAt(h) ==
    compute_kpis_pro(c_positions, c_cf, c_arg.valuation_date, c_arg.curve, c_arg.lcr_h,
                     h).Stress_Survive

\* a surviving snapshot whose stress horizon covers the liquidity horizon has
\* HQLA >= NetOutflow_30D, that is LCR >= 1 or LCR = +infinity
SurvivalCoversOutflow ==
    (c_arg.stress_h >= c_arg.lcr_h /\ c_out.Stress_Survive = 1) =>
        /\ c_out.HQLA >= c_out.NetOutflow_30D
        /\ c_out.LCR >= 1000 \/ c_out.LCR = INF

\* surviving a horizon implies surviving every shorter one
SurvivalMonotone ==
    c_out.Stress_Survive = 1 =>
        \A h \in StressHorizons : h < c_arg.stress_h => SurviveAt(h) = 1

\* C30 as stated: for every position set, cashflow table and valuation date, a
\* stress horizon >= the liquidity horizon with Stress_Survive = 1 implies
\* HQLA >= NetOutflow_30D (LCR >= 1 or +infinity), and Stress_Survive = 1 for a stress
\* horizon implies Stress_Survive = 1 for every shorter one
C30_LiquidityConsistent == KpiDone => (SurvivalCoversOutflow /\ SurvivalMonotone)

\* C30 for position sets whose liquid assets are not overdrawn: HQLA >= 0
C30_ConsistentWhenHqlaNonNegative ==
    (KpiDone /\ c_out.HQLA >= 0) => (SurvivalCoversOutflow /\ SurvivalMonotone)

\* a snapshot that survives a stress horizon longer than the liquidity horizon, with
\* a net outflow that the liquid assets cover
C30_Witness ==
    /\ KpiDone /\ c_arg.stress_h > c_arg.lcr_h /\ c_out.Stress_Survive = 1
    /\ c_out.NetOutflow_30D > 0 /\ c_out.HQLA >= c_out.NetOutflow_30D
    /\ c_cf.rows # <<>>

====
